---- MODULE Spec2Model ----
(***************************************************************************)
(* Duplex streaming subsystem of reality-lens.                             *)
(*                                                                         *)
(*   StreamingClient  = GeminiLiveClient     (DEPLOYMENT_CHECKLIST.md,     *)
(*                                            the lib/gemini-live-client   *)
(*                                            listing, lines 301-577)      *)
(*   UpstreamAdapter  = GeminiLiveService    (server/src/gemini-live-      *)
(*                                            service.ts)                  *)
(*   Relay            = RealityLensWebSocketServer (server/src/websocket-  *)
(*                                            server.ts)                   *)
(*                                                                         *)
(* Both runtimes are single-threaded event loops: every handler runs to    *)
(* completion, so one action is one handler (with every call it makes).    *)
(* A WebSocket object is modelled by its readyState; each connect() makes  *)
(* a new object, and the handlers registered on an old object stay live.   *)
(***************************************************************************)
EXTENDS Integers, Sequences, FiniteSets, TLC

\* ------------------------------------------------------------------ bounds
\* Each specification fixes the bounds of its runs in `limits`.
\* Spec: WebSocket objects the client creates
MaxSockets == 4
\* Spec: sendVideoFrame/sendAudioChunk/sendText calls
MaxMsgs == 2
\* SpecFaulty: WebSocket objects the client creates
FaultySockets == 4
\* SpecFaulty: sendVideoFrame/sendAudioChunk/sendText calls
FaultyMsgs == 1
\* SpecFaulty: ws.send calls that raise
MaxSendErrors == 1
\* SpecRelay: upstream WebSocket objects the adapters create
RelaySockets == 3
\* SpecRelay: client messages the Relay receives
RelayMsgs == 1
\* SpecSweep: client messages the Relay receives
SweepMsgs == 1
\* SpecSweep: clock ticks
MaxTicks == 3
\* SpecEndpoints: WebSocket objects each endpoint creates
EndpointSockets == 3
\* SpecSession: sendVideoFrame/sendAudioChunk/sendText calls of the client
SessionMsgs == 1
\* SpecSession: upstream WebSocket objects the adapter creates
SessionSockets == 1
\* SpecSession: messages the upstream endpoint sends
SessionUpMsgs == 1
\* upstream WebSocket objects of the run that exhausts an adapter's reconnects
AdapterSockets == 5
\* tokens of the longest frame or audio string a client sends
FrameLen == 4
\* client messages the Relay receives in the run with data-URL frames
FrameMsgs == 1
\* clock steps of the run with the termination signals
ShutdownTicks == 3
\* upstream WebSocket objects, client messages and upstream messages of the run
\* with two clients side by side
PairSockets == 3
PairMsgs == 1
PairUpMsgs == 1
\* upstream WebSocket objects and client messages of the run in which one
\* adapter queues and flushes media chunks
QueueSockets == 3
QueueMsgs == 2
\* client messages and clock steps of the run with every kind of inbound message
InboundMsgs == 2
InboundTicks == 1
\* messages each receiver gets in the run with unparseable messages
ParseMsgs == 2
\* client sockets and messages of the run that records the connection observer
OpenSockets == 3
OpenMsgs == 1
\* messages from the client and from upstream in the run with closing sockets
TransportMsgs == 1
\* clock steps and client messages of the run with the sweep on its timer
IdleTicks == 34
IdleMsgs == 1
\* upstream messages of the run with every shape of envelope
EnvelopeMsgs == 2
\* sockets of each endpoint in the run that takes both to their ceiling
CeilingSockets == 4
\* client messages of the run that counts frames
CountMsgs == 2
\* messages in each queue when its drain starts
DrainLen == 2

\* --------------------------------------------------------- program constants
maxReconnectAttempts == 3
reconnectDelay == 1000

staleThreshold == 5 * 60 * 1000
\* the delay of the constructor's setInterval
sweepInterval == 30 * 1000
\* the clock's grain in SpecIdle: 10 seconds
IdleTickMs == 10 * 1000
TickMs == 150 * 1000   \* the clock's grain in SpecSweep: 2.5 minutes

\* WebSocket.readyState
CONNECTING == "CONNECTING"
OPEN == "OPEN"
CLOSING == "CLOSING"
CLOSED == "CLOSED"

MaxReachedError == "Max reconnection attempts reached"
ConnectionError == "WebSocket connection error"

VARIABLES
    \* ---- GeminiLiveClient fields
    ws,                \* this.ws: 0 = null, else an index into sockets
    isConnected,
    reconnectAttempts,
    messageQueue,      \* sequence of ClientMessage
    shouldReconnect,
    \* ---- the client's environment
    sockets,           \* the WebSocket objects created so far, in creation order
    timers,            \* pending setTimeout callbacks of attemptReconnect (their delays)
    transmitted,       \* what ws.send put on the wire, in order: [sock, msg]
    onErrorCalls,      \* arguments of config.onError, in order
    sendFaults,        \* how many more ws.send calls may raise
    \* ---- history
    issued,            \* number of ClientMessages constructed so far (ids 1..issued)
    issuedClosed,      \* ids of the messages issued while the transport was not open
    scheduled,         \* every setTimeout of attemptReconnect so far, as the set of
                       \* <<k, delay>>: the k-th attempt in a row, and its delay
    failedInRow        \* reconnect attempts that ended in a close without an open,
                       \* since the last open

    ,
    \* ---- RealityLensWebSocketServer
    connections,       \* keys of the id -> ConnectionState Map
    states,            \* the ConnectionState objects, by id (they outlive their Map entry)
    gemini,            \* the GeminiLiveService object made for each connection id
    \* ---- the Relay's environment
    created,           \* connection ids generated so far: 1..created
    now,               \* Date.now()
    toClient,          \* ServerMessages sent on each client socket, in order
    received,          \* client messages received so far
    limits,            \* the run's bounds: [clientSockets, clientMsgs, conns,
                       \* sockets, msgs, ticks, tickMs]
    \* ---- history
    cleanupCalls,      \* calls of cleanupConnection(id) so far, by id
    lastSweep          \* cleanupStaleConnections(): `fresh`, it has run since the
                       \* clock last moved; `removed`, `kept`, `at`: the ids the
                       \* last run that removed an entry removed and kept, and its
                       \* Date.now()

    ,
    \* ---- the Relay's inbound side
    lastMsg,           \* history: the client message handleClientMessage handled
                       \* last: [conn, type, frame], and `established`: its
                       \* ConnectionState was in the mapping, active, with the
                       \* upstream link stored
    taken,             \* in a linked run: how many entries of the client's wire the
                       \* Relay has received
    \* ---- the upstream endpoint
    upstreamMsgs,      \* messages the upstream endpoint has sent so far
    lastEnvelope,      \* history: the envelope handleGeminiMessage handled last:
                       \* [conn, envelope]
    \* ---- the client's inbound side
    onResponseCalls,   \* arguments of config.onResponse, in order: [text, audio, raw]
    delivered,         \* how many ServerMessages the client has handled; in a
                       \* linked run they are those of the Relay's client socket
    lastServerMsg,     \* history: the message handleServerMessage handled last
    onConnectionCalls, \* history: arguments of config.onConnection, in order
    \* ---- the server process
    cleanupInterval,   \* the setInterval timer of the idle sweep is set
    listening,         \* the WebSocketServer accepts connections
    shutdownLog,       \* history: the steps of shutdown(), in order
    exitCode,          \* "running", or the code process.exit was called with
    \* ---- processQueue, when its loop is followed round by round
    clientShifted,     \* the client loop's `message` between shift() and
                       \* sendMessage(message): <<>> or <<message>>
    adapterShifted     \* the same for the loop of connection 1's adapter

clientVars == <<ws, isConnected, reconnectAttempts, messageQueue, shouldReconnect,
                sockets, timers, transmitted, onErrorCalls, sendFaults,
                issued, issuedClosed, scheduled, failedInRow>>

relayVars == <<connections, states, gemini, created, now, toClient, received, limits,
               cleanupCalls, lastSweep>>

recvVars == <<lastMsg, taken>>

upVars == <<upstreamMsgs, lastEnvelope>>

obsVars == <<onResponseCalls, delivered, lastServerMsg, onConnectionCalls>>

procVars == <<cleanupInterval, listening, shutdownLog, exitCode>>

drainVars == <<clientShifted, adapterShifted>>

extraVars == <<recvVars, upVars, obsVars, procVars, drainVars>>

vars == <<clientVars, relayVars, extraVars>>

\* The connection ids generateConnectionId() hands out: two clients.
ConnIds == {1, 2}

\* ------------------------------------------------------------------ helpers
RECURSIVE Pow2(_)
Pow2(n) == IF n <= 0 THEN 1 ELSE 2 * Pow2(n - 1)

Range(s) == {s[i] : i \in 1..Len(s)}

\* `this.ws && this.ws.readyState === WebSocket.OPEN`
WsOpen(w, socks) == w # 0 /\ socks[w].readyState = OPEN

ClientMessage(type, id) == [type |-> type, id |-> id]

\* ws.send may raise only while the fault budget lasts
ThrowChoices == IF sendFaults > 0 THEN BOOLEAN ELSE {FALSE}

\* ------------------------------------------------ GeminiLiveClient.sendMessage
\* The result of sendMessage(message) on queue q and wire log tx, when this.ws is
\* socket w (open or not) and ws.send raises or not.
sendMessage_dropOnThrow(message, q, tx, w, open, throws) ==
    IF ~open THEN [queue |-> Append(q, message), wire |-> tx, thrown |-> 0]
    ELSE IF throws THEN [queue |-> q, wire |-> tx, thrown |-> 1]
    ELSE [queue |-> q, wire |-> Append(tx, [sock |-> w, msg |-> message]), thrown |-> 0]

sendMessage(message, q, tx, w, open, throws) ==
    IF ~open THEN [queue |-> Append(q, message), wire |-> tx, thrown |-> 0]
    ELSE IF throws THEN [queue |-> Append(q, message), wire |-> tx, thrown |-> 1]
    ELSE [queue |-> q, wire |-> Append(tx, [sock |-> w, msg |-> message]), thrown |-> 0]

\* ----------------------------------------------- GeminiLiveClient.processQueue
\* The while loop, run to its end.  errAt: which of the loop's ws.send calls
\* raise (by call number); n: the number of the next call; k: raised so far.
RECURSIVE processQueue_pop(_, _, _, _, _, _, _)
processQueue_pop(q, tx, w, open, errAt, n, k) ==
    IF q = <<>> \/ ~open THEN [queue |-> q, wire |-> tx, thrown |-> k]
    ELSE LET message == q[Len(q)]
             r == sendMessage(message, SubSeq(q, 1, Len(q) - 1), tx, w, open, n \in errAt)
         IN processQueue_pop(r.queue, r.wire, w, open, errAt, n + 1, k + r.thrown)

RECURSIVE processQueue_once(_, _, _, _, _, _, _)
processQueue_once(q, tx, w, open, errAt, n, k) ==
    IF q = <<>> \/ ~open \/ n > 1 THEN [queue |-> q, wire |-> tx, thrown |-> k]
    ELSE LET message == Head(q)
             r == sendMessage(message, Tail(q), tx, w, open, n \in errAt)
         IN processQueue_once(r.queue, r.wire, w, open, errAt, n + 1, k + r.thrown)

RECURSIVE processQueue(_, _, _, _, _, _, _)
processQueue(q, tx, w, open, errAt, n, k) ==
    IF q = <<>> \/ ~open THEN [queue |-> q, wire |-> tx, thrown |-> k]
    ELSE LET message == Head(q)
             r == sendMessage(message, Tail(q), tx, w, open, n \in errAt)
         IN processQueue(r.queue, r.wire, w, open, errAt, n + 1, k + r.thrown)

\* The ws.send calls of one drain that may raise: at most sendFaults of them,
\* so the drain ends.
DrainFaults(q) ==
    {e \in SUBSET (1..(Len(q) + sendFaults)) : Cardinality(e) <= sendFaults}

\* ------------------------------------------- GeminiLiveClient.attemptReconnect
ReachedMax_gt(attempts) == attempts > maxReconnectAttempts

ReachedMax(attempts) == attempts >= maxReconnectAttempts

Backoff_linear(attempts) == reconnectDelay * attempts

Backoff(attempts) == reconnectDelay * Pow2(attempts - 1)

attemptReconnect_twice(attempts, tm, errs) ==
    IF ReachedMax(attempts)
    THEN [reconnectAttempts |-> attempts, timers |-> tm,
          onErrorCalls |-> Append(errs, MaxReachedError)]
    ELSE [reconnectAttempts |-> attempts + 1,
          timers |-> tm \o <<Backoff(attempts + 1), Backoff(attempts + 1)>>,
          onErrorCalls |-> errs]

\* The fields attemptReconnect() leaves behind.
attemptReconnect(attempts, tm, errs) ==
    IF ReachedMax(attempts)
    THEN [reconnectAttempts |-> attempts, timers |-> tm,
          onErrorCalls |-> Append(errs, MaxReachedError)]
    ELSE [reconnectAttempts |-> attempts + 1,
          timers |-> Append(tm, Backoff(attempts + 1)),
          onErrorCalls |-> errs]

\* `if (this.shouldReconnect)` of the onclose handler
CloseReconnects_always(flag) == TRUE

CloseReconnects(flag) == flag

\* --------------------------------------------------------------------- Init
InitClient ==
    /\ ws = 0
    /\ isConnected = FALSE
    /\ reconnectAttempts = 0
    /\ messageQueue = <<>>
    /\ shouldReconnect = TRUE
    /\ sockets = <<>>
    /\ timers = <<>>
    /\ transmitted = <<>>
    /\ onErrorCalls = <<>>
    /\ issued = 0
    /\ issuedClosed = {}
    /\ scheduled = {}
    /\ failedInRow = 0

\* --------------------------------------------------- GeminiLiveClient.connect
\* new WebSocket(url) and the four handler registrations.
connect(by) ==
    /\ Len(sockets) < limits.clientSockets
    /\ sockets' = Append(sockets, [readyState |-> CONNECTING, by |-> by, opened |-> FALSE])
    /\ ws' = Len(sockets) + 1

\* The application's one connect() call (page-phase2.tsx, the effect body).
AppConnect ==
    /\ sockets = <<>>
    /\ shouldReconnect
    /\ connect("app")
    /\ UNCHANGED <<isConnected, reconnectAttempts, messageQueue, shouldReconnect,
                   timers, transmitted, onErrorCalls, sendFaults,
                   issued, issuedClosed, scheduled, failedInRow, relayVars, extraVars>>

\* The setTimeout callback of attemptReconnect: this.connect().
ReconnectTimer ==
    \E i \in 1..Len(timers) :
        /\ timers' = SubSeq(timers, 1, i - 1) \o SubSeq(timers, i + 1, Len(timers))
        /\ connect("timer")
        /\ UNCHANGED <<isConnected, reconnectAttempts, messageQueue, shouldReconnect,
                       transmitted, onErrorCalls, sendFaults,
                       issued, issuedClosed, scheduled, failedInRow, relayVars, extraVars>>

onConnection_twice(calls, connected) ==
    IF limits.trace THEN calls \o <<connected, connected>> ELSE calls

\* `if (this.config.onConnection) this.config.onConnection(connected)`, with an
\* observer configured
onConnection(calls, connected) ==
    IF limits.trace THEN Append(calls, connected) ELSE calls

\* ws.onopen
SocketOpen ==
    \E s \in 1..Len(sockets) :
        /\ sockets[s].readyState = CONNECTING
        /\ limits.linked => s <= created
        /\ sockets' = [sockets EXCEPT ![s].readyState = OPEN, ![s].opened = TRUE]
        /\ isConnected' = TRUE
        /\ reconnectAttempts' = 0
        /\ \E errAt \in DrainFaults(messageQueue) :
              LET r == processQueue(messageQueue, transmitted, ws,
                                    WsOpen(ws, sockets'), errAt, 1, 0)
              IN /\ messageQueue' = r.queue
                 /\ transmitted' = r.wire
                 /\ sendFaults' = sendFaults - r.thrown
        /\ onConnectionCalls' = onConnection(onConnectionCalls, TRUE)
        /\ failedInRow' = 0
        /\ UNCHANGED <<ws, shouldReconnect, timers, onErrorCalls,
                       issued, issuedClosed, scheduled, relayVars, recvVars, upVars,
                       onResponseCalls, delivered, lastServerMsg, procVars, drainVars>>

\* The close of socket s: the browser sets readyState CLOSED, fires `error` first
\* when the connection failed (ws.onerror), then `close` (ws.onclose).
SocketClose ==
    \E s \in 1..Len(sockets), failed \in BOOLEAN :
        /\ sockets[s].readyState # CLOSED
        /\ sockets[s].readyState = CONNECTING => failed
        /\ sockets[s].readyState = CLOSING => (failed <=> ~sockets[s].opened)
        /\ sockets' = [sockets EXCEPT ![s].readyState = CLOSED]
        /\ isConnected' = FALSE
        /\ LET errs == IF failed THEN Append(onErrorCalls, ConnectionError)
                       ELSE onErrorCalls
               r == attemptReconnect(reconnectAttempts, timers, errs)
           IN IF CloseReconnects(shouldReconnect)
              THEN /\ reconnectAttempts' = r.reconnectAttempts
                   /\ timers' = r.timers
                   /\ onErrorCalls' = r.onErrorCalls
              ELSE /\ onErrorCalls' = errs
                   /\ UNCHANGED <<reconnectAttempts, timers>>
        /\ failedInRow' = IF sockets[s].by = "timer" /\ ~sockets[s].opened
                          THEN failedInRow + 1 ELSE failedInRow
        /\ scheduled' = IF Len(timers') > Len(timers)
                        THEN scheduled \cup {<<failedInRow' + 1, timers'[Len(timers')]>>}
                        ELSE scheduled
        /\ onConnectionCalls' = onConnection(onConnectionCalls, FALSE)
        /\ UNCHANGED <<ws, messageQueue, shouldReconnect, transmitted, sendFaults,
                       issued, issuedClosed, relayVars, recvVars, upVars,
                       onResponseCalls, delivered, lastServerMsg, procVars, drainVars>>

\* sendVideoFrame / sendAudioChunk / sendText: build the message, sendMessage it.
Send(type) ==
    /\ issued < limits.clientMsgs
    /\ \E throws \in ThrowChoices :
          LET open == WsOpen(ws, sockets)
              r == sendMessage(ClientMessage(type, issued + 1), messageQueue,
                               transmitted, ws, open, throws)
          IN /\ messageQueue' = r.queue
             /\ transmitted' = r.wire
             /\ sendFaults' = sendFaults - r.thrown
             /\ issuedClosed' = IF open THEN issuedClosed
                                ELSE issuedClosed \cup {issued + 1}
    /\ issued' = issued + 1
    /\ UNCHANGED <<ws, isConnected, reconnectAttempts, shouldReconnect, sockets,
                   timers, onErrorCalls, scheduled, failedInRow, relayVars, extraVars>>

sendVideoFrame == Send("video_frame")

sendAudioChunk == Send("audio_chunk")

sendText == Send("text")

\* disconnect(): the application's cleanup call.
disconnect ==
    /\ shouldReconnect
    /\ shouldReconnect' = FALSE
    /\ IF ws # 0
       THEN /\ \E throws \in ThrowChoices :
                 LET open == WsOpen(ws, sockets)
                     r == sendMessage(ClientMessage("end", issued + 1), messageQueue,
                                      transmitted, ws, open, throws)
                 IN /\ messageQueue' = r.queue
                    /\ transmitted' = r.wire
                    /\ sendFaults' = sendFaults - r.thrown
                    /\ issuedClosed' = IF open THEN issuedClosed
                                       ELSE issuedClosed \cup {issued + 1}
            /\ issued' = issued + 1
            /\ isConnected' = FALSE
            \* ws.close(): CONNECTING or OPEN becomes CLOSING, else nothing
            /\ sockets' = [sockets EXCEPT ![ws].readyState =
                              IF @ \in {CONNECTING, OPEN} THEN CLOSING ELSE @]
            /\ ws' = 0
       ELSE UNCHANGED <<messageQueue, transmitted, sendFaults, issuedClosed, issued,
                        isConnected, sockets, ws>>
    /\ UNCHANGED <<reconnectAttempts, timers, onErrorCalls, scheduled, failedInRow,
                   relayVars, extraVars>>

\* ======================================================================
\*                    UpstreamAdapter: GeminiLiveService
\* ======================================================================
SetupMessage == [kind |-> "setup"]

MediaChunk(mimeType, data) == [kind |-> "media", mimeType |-> mimeType, data |-> data]

\* The fields of `new GeminiLiveService(config)`, with its environment and history.
NewService ==
    [ws |-> 0, isConnected |-> FALSE, reconnectAttempts |-> 0, messageQueue |-> <<>>,
     sockets |-> <<>>,      \* the upstream WebSocket objects it created
     timers |-> <<>>,       \* pending setTimeout callbacks of attemptReconnect
     wire |-> <<>>,         \* what ws.send put on the upstream wire: [sock, msg]
     disconnected |-> FALSE,\* history: disconnect() has been called
     failedInRow |-> 0,     \* history: as for the client
     scheduled |-> {}]      \* history: as for the client

UpstreamSockets == LET RECURSIVE Sum(_)
                       Sum(c) == IF c = 0 THEN 0 ELSE Len(gemini[c].sockets) + Sum(c - 1)
                   IN Sum(Cardinality(ConnIds))

\* GeminiLiveService.sendMessage on service g
gSendMessage_dropClosed(g, message, throws) ==
    IF ~WsOpen(g.ws, g.sockets) THEN g
    ELSE IF throws THEN [g EXCEPT !.messageQueue = Append(@, message)]
    ELSE [g EXCEPT !.wire = Append(@, [sock |-> g.ws, msg |-> message])]

gSendMessage(g, message, throws) ==
    IF ~WsOpen(g.ws, g.sockets) THEN [g EXCEPT !.messageQueue = Append(@, message)]
    ELSE IF throws THEN [g EXCEPT !.messageQueue = Append(@, message)]
    ELSE [g EXCEPT !.wire = Append(@, [sock |-> g.ws, msg |-> message])]

\* GeminiLiveService.processQueue: `while (this.messageQueue.length > 0)`.  The loop
\* does not look at readyState; it is entered from the open handler only, where
\* this.ws is the socket that opened.
RECURSIVE gProcessQueue(_)
gProcessQueue(g) ==
    IF g.messageQueue = <<>> \/ ~WsOpen(g.ws, g.sockets) THEN g
    ELSE gProcessQueue(gSendMessage([g EXCEPT !.messageQueue = Tail(@)],
                                    Head(g.messageQueue), FALSE))

\* GeminiLiveService.sendSetup
sendSetup(g) == gSendMessage(g, SetupMessage, FALSE)

\* The open handler of connect(), after its assignments: sendSetup(), then
\* processQueue().
gOpen_flushFirst(g) == sendSetup(gProcessQueue(g))

gOpen(g) == gProcessQueue(sendSetup(g))

gReachedMax_gt(attempts) == attempts > maxReconnectAttempts

gReachedMax(attempts) == attempts >= maxReconnectAttempts

gBackoff(attempts) == reconnectDelay * Pow2(attempts - 1)

\* GeminiLiveService.connect on service g: new WebSocket(url), handlers registered.
gConnect(g, by) ==
    [g EXCEPT !.sockets = Append(@, [readyState |-> CONNECTING, by |-> by,
                                     opened |-> FALSE]),
              !.ws = Len(g.sockets) + 1]

\* GeminiLiveService.disconnect
gDisconnect(g) ==
    IF g.ws # 0
    THEN [g EXCEPT !.isConnected = FALSE,
                   !.sockets[g.ws].readyState =
                       IF @ \in {CONNECTING, OPEN} THEN CLOSING ELSE @,
                   !.ws = 0,
                   !.disconnected = TRUE]
    ELSE [g EXCEPT !.disconnected = TRUE]

\* The envelopes of the upstream endpoint: [kind |-> "setupComplete"],
\* [kind |-> "content", parts |-> <<part, ...>>] (serverContent.modelTurn),
\* [kind |-> "other"] (a shape handleGeminiMessage does not know) and
\* [kind |-> "malformed"] (JSON.parse raises).  A part is [text, mimeType, data]:
\* text "" is a part without text, mimeType "" a part without inlineData.
Undefined == "undefined"

TextPart(text) == [text |-> text, mimeType |-> "", data |-> ""]

AudioPart(data) == [text |-> "", mimeType |-> "audio/pcm", data |-> data]

ContentEnvelope(parts) == [kind |-> "content", parts |-> parts]

ConnectedMessage == [type |-> "connected", data |-> [status |-> "ready"]]

TextResponse_withStatus(text) ==
    [type |-> "response", data |-> [text |-> text, status |-> "ready"]]

TextResponse(text) == [type |-> "response", data |-> [text |-> text]]

AudioResponse(audio) == [type |-> "response", data |-> [audio |-> audio]]

\* mimeType.startsWith('audio/')
IsAudio_any(mimeType) == mimeType # ""

IsAudio(mimeType) == mimeType \in {"audio/pcm", "audio/wav"}

\* The ServerMessages one part of a content envelope gives.
PartMessages(part) ==
    (IF part.text # "" THEN <<TextResponse(part.text)>> ELSE <<>>)
    \o (IF IsAudio(part.mimeType) THEN <<AudioResponse(part.data)>> ELSE <<>>)

\* GeminiLiveService.handleGeminiMessage: the ServerMessages handed to
\* onMessageCallback, in order.
RECURSIVE PartsMessages(_)
PartsMessages(parts) ==
    IF parts = <<>> THEN <<>>
    ELSE PartMessages(Head(parts)) \o PartsMessages(Tail(parts))

handleGeminiMessage(envelope) ==
    CASE envelope.kind = "setupComplete" -> <<ConnectedMessage>>
      [] envelope.kind = "content" -> PartsMessages(envelope.parts)
      [] OTHER -> <<>>

\* ======================================================================
\*                    Relay: RealityLensWebSocketServer
\* ======================================================================
\* A frame or audio string, as a sequence of tokens: the two data-URL heads, the
\* `;base64,` mark, a word character (\w) and a character that is not one.
ImageHead == "data:image/"

AudioHead == "data:audio/"

Base64Mark == ";base64,"

WordChar == "A"

OtherChar == "+"

FrameTokens == {ImageHead, AudioHead, Base64Mark, WordChar, OtherChar}

FramesUpTo(n) == UNION {[1..k -> FrameTokens] : k \in 0..n}

\* The bare payload the clients of the runs without data URLs send.
BareFrame == <<WordChar>>

\* message.data.frame of a message whose JSON gives the field a value that is
\* truthy and not a string, such as {"type": "video_frame", "data": {"frame": 1}}:
\* it has no replace method, so `.replace(...)` raises a TypeError.
NumberFrame == <<"1 (a number)">>

IsString(frame) == frame # NumberFrame

\* frame.replace(/^data:image\/\w+;base64,/, '') for head = ImageHead, and
\* audio.replace(/^data:audio\/\w+;base64,/, '') for head = AudioHead: the
\* match is the head, one or more word characters, and the mark.
stripDataUrl(frame, head) ==
    LET Matches(k) == /\ frame[1] = head
                      /\ k >= 2
                      /\ \A i \in 2..k : frame[i] = WordChar
                      /\ frame[k + 1] = Base64Mark
    IN IF \E k \in 2..(Len(frame) - 1) : Matches(k)
       THEN LET k == CHOOSE j \in 2..(Len(frame) - 1) : Matches(j)
            IN SubSeq(frame, k + 2, Len(frame))
       ELSE frame

\* handleClientMessage, case 'text': the Relay logs the text and forwards nothing.
handleText_forward(g, text) == gSendMessage(g, [kind |-> "text", text |-> text], FALSE)

handleText(g, text) == g

NoState == [clientWs |-> "NONE", geminiService |-> FALSE, isActive |-> FALSE,
            lastActivity |-> 0, frameCount |-> 0]

\* ServerMessage: [type, data]; the timestamp field of data is left out.
StatusMessage_asConnected(status) == [type |-> "connected", data |-> [status |-> status]]

StatusMessage(status) == [type |-> "status", data |-> [status |-> status]]

ErrorMessage_asStatus(error) == [type |-> "status", data |-> [status |-> error]]

ErrorMessage(error) == [type |-> "error", data |-> [error |-> error]]

\* RealityLensWebSocketServer.sendToClient: the log of client socket c afterwards
sendToClient_broadcast(log, conns, sts, c, message) ==
    [d \in DOMAIN log |->
        IF d \in conns /\ sts[d].clientWs = OPEN THEN Append(log[d], message) ELSE log[d]]

sendToClient_anyState(log, conns, sts, c, message) ==
    IF c \in conns THEN [log EXCEPT ![c] = Append(@, message)] ELSE log

sendToClient(log, conns, sts, c, message) ==
    IF c \in conns /\ sts[c].clientWs = OPEN
    THEN [log EXCEPT ![c] = Append(@, message)]
    ELSE log

\* `now - state.lastActivity > staleThreshold`
IsStale_ge(t, lastActivity) == t - lastActivity >= staleThreshold

IsStale(t, lastActivity) == t - lastActivity > staleThreshold

\* RealityLensWebSocketServer.cleanupConnection(c) on the relay state
\* r = [connections, states, gemini]
cleanupConnection_keepEntry(r, c) ==
    IF c \notin r.connections THEN r
    ELSE [connections |-> r.connections,
          states |-> [r.states EXCEPT
                         ![c].clientWs = IF @ = OPEN THEN CLOSING ELSE @,
                         ![c].isActive = FALSE],
          gemini |-> IF r.states[c].geminiService
                     THEN [r.gemini EXCEPT ![c] = gDisconnect(@)]
                     ELSE r.gemini]

cleanupConnection(r, c) ==
    IF c \notin r.connections THEN r
    ELSE [connections |-> r.connections \ {c},
          states |-> [r.states EXCEPT
                         ![c].clientWs = IF @ = OPEN THEN CLOSING ELSE @,
                         ![c].isActive = FALSE],
          gemini |-> IF r.states[c].geminiService
                     THEN [r.gemini EXCEPT ![c] = gDisconnect(@)]
                     ELSE r.gemini]

\* RealityLensWebSocketServer.getActiveConnectionsCount: the values of the Map
\* whose isActive is set
getActiveConnectionsCount == Cardinality({c \in connections : states[c].isActive})

RelayState == [connections |-> connections, states |-> states, gemini |-> gemini]

SetRelayState(r) ==
    /\ connections' = r.connections
    /\ states' = r.states
    /\ gemini' = r.gemini

InitRelay ==
    /\ connections = {}
    /\ states = [c \in ConnIds |-> NoState]
    /\ gemini = [c \in ConnIds |-> NewService]
    /\ created = 0
    /\ now = 0
    /\ toClient = [c \in ConnIds |-> <<>>]
    /\ received = 0
    /\ cleanupCalls = [c \in ConnIds |-> 0]
    /\ lastSweep = [removed |-> {}, kept |-> {}, at |-> 0, fresh |-> FALSE]

\* wss.on('connection'): the handler of setupConnectionHandler, with the
\* synchronous part of initializeGeminiConnection (up to the await).
ClientConnect ==
    /\ created < limits.conns
    /\ listening
    /\ limits.linked => /\ created < Len(sockets)
                        /\ sockets[created + 1].readyState = CONNECTING
    /\ UpstreamSockets < limits.sockets
    /\ LET c == created + 1
       IN /\ created' = c
          /\ connections' = connections \cup {c}
          /\ states' = [states EXCEPT ![c] =
                [clientWs |-> OPEN, geminiService |-> FALSE, isActive |-> TRUE,
                 lastActivity |-> now, frameCount |-> 0]]
          /\ gemini' = [gemini EXCEPT ![c] = gConnect(NewService, "relay")]
          /\ toClient' = sendToClient(toClient, connections', states', c,
                                      StatusMessage("initializing"))
    /\ UNCHANGED <<now, received, cleanupCalls, lastSweep, limits, clientVars, extraVars>>

\* The upstream `open` event of socket s of connection c's service, then the
\* continuation of `await geminiService.connect()` when s is the first socket.
GeminiOpen ==
    \E c \in 1..created, s \in 1..limits.sockets :
        /\ exitCode = "running"
        /\ s <= Len(gemini[c].sockets)
        /\ gemini[c].sockets[s].readyState = CONNECTING
        /\ LET g0 == [gemini[c] EXCEPT !.sockets[s].readyState = OPEN,
                                       !.sockets[s].opened = TRUE,
                                       !.isConnected = TRUE,
                                       !.reconnectAttempts = 0,
                                       !.failedInRow = 0]
           IN gemini' = [gemini EXCEPT ![c] = gOpen(g0)]
        /\ states' = IF gemini[c].sockets[s].by = "relay"
                     THEN [states EXCEPT ![c].geminiService = TRUE]
                     ELSE states
        /\ UNCHANGED <<connections, created, now, toClient, received, cleanupCalls,
                       lastSweep, limits, clientVars, extraVars>>

gAttemptReconnect_noCeiling(g) ==
    [g |-> [g EXCEPT !.reconnectAttempts = @ + 1,
                     !.timers = Append(@, gBackoff(g.reconnectAttempts + 1)),
                     !.scheduled = @ \cup {<<g.failedInRow + 1,
                                             gBackoff(g.reconnectAttempts + 1)>>}],
     error |-> <<>>]

\* GeminiLiveService.attemptReconnect on service g; the onErrorCallback call, if
\* any, is reported in `error`.
gAttemptReconnect(g) ==
    IF gReachedMax(g.reconnectAttempts)
    THEN [g |-> g, error |-> <<MaxReachedError>>]
    ELSE [g |-> [g EXCEPT !.reconnectAttempts = @ + 1,
                          !.timers = Append(@, gBackoff(g.reconnectAttempts + 1)),
                          !.scheduled = @ \cup {<<g.failedInRow + 1,
                                                  gBackoff(g.reconnectAttempts + 1)>>}],
          error |-> <<>>]

\* The close of upstream socket s of connection c: `error` first when the
\* connection failed (the relay's onError handler, and the catch block of
\* initializeGeminiConnection when the awaited connect() rejects), then `close`.
GeminiClose ==
    \E c \in 1..created, s \in 1..limits.sockets, failed \in BOOLEAN :
        /\ exitCode = "running"
        /\ s <= Len(gemini[c].sockets)
        /\ gemini[c].sockets[s].readyState # CLOSED
        /\ gemini[c].sockets[s].readyState = CONNECTING => failed
        /\ gemini[c].sockets[s].readyState = CLOSING =>
              (failed <=> ~gemini[c].sockets[s].opened)
        /\ LET sock == gemini[c].sockets[s]
               g0 == [gemini[c] EXCEPT
                         !.sockets[s].readyState = CLOSED,
                         !.isConnected = FALSE,
                         !.failedInRow = IF sock.by = "timer" /\ ~sock.opened
                                         THEN @ + 1 ELSE @]
               r == gAttemptReconnect(g0)
               log0 == IF failed
                       THEN sendToClient(toClient, connections, states, c,
                                         ErrorMessage("upstream"))
                       ELSE toClient
               log1 == IF r.error # <<>>
                       THEN sendToClient(log0, connections, states, c,
                                         ErrorMessage(r.error[1]))
                       ELSE log0
               log2 == IF failed /\ sock.by = "relay" /\ ~sock.opened
                       THEN sendToClient(log1, connections, states, c,
                                         ErrorMessage("Failed to connect to Gemini Live"))
                       ELSE log1
           IN /\ gemini' = [gemini EXCEPT ![c] = r.g]
              /\ toClient' = log2
        /\ UNCHANGED <<connections, states, created, now, received, cleanupCalls,
                       lastSweep, limits, clientVars, extraVars>>

\* The setTimeout callback of GeminiLiveService.attemptReconnect: this.connect().
GeminiReconnectTimer ==
    \E c \in 1..created :
        /\ exitCode = "running"
        /\ gemini[c].timers # <<>>
        /\ UpstreamSockets < limits.sockets
        /\ gemini' = [gemini EXCEPT ![c] = gConnect([@ EXCEPT !.timers = Tail(@)], "timer")]
        /\ UNCHANGED <<connections, states, created, now, toClient, received,
                       cleanupCalls, lastSweep, limits, clientVars, extraVars>>

\* sendToClient for each message of a sequence, in order.
RECURSIVE sendAllToClient(_, _, _, _, _)
sendAllToClient(log, conns, sts, c, messages) ==
    IF messages = <<>> THEN log
    ELSE sendAllToClient(sendToClient(log, conns, sts, c, Head(messages)),
                         conns, sts, c, Tail(messages))

\* ws.on('message') of an upstream socket of connection c: handleGeminiMessage,
\* whose onMessageCallback is the Relay's sendToClient(c, message).
GeminiMessage ==
    \E c \in 1..created, envelope \in limits.envelopes :
        /\ exitCode = "running"
        /\ upstreamMsgs < limits.upMsgs
        /\ \E s \in 1..Len(gemini[c].sockets) :
              /\ gemini[c].sockets[s].opened
              /\ gemini[c].sockets[s].readyState \in {OPEN, CLOSING}
        /\ upstreamMsgs' = upstreamMsgs + 1
        /\ lastEnvelope' = IF limits.trace
                           THEN [conn |-> c, envelope |-> envelope] ELSE lastEnvelope
        /\ toClient' = sendAllToClient(toClient, connections, states, c,
                                       handleGeminiMessage(envelope))
        /\ UNCHANGED <<connections, states, gemini, created, now, received,
                       cleanupCalls, lastSweep, limits, clientVars, recvVars,
                       obsVars, procVars, drainVars>>

ignoresMessage_never(c) == FALSE

\* handleClientMessage's first test: `if (!state || !state.isActive) return`
ignoresMessage(c) == c \notin connections \/ ~states[c].isActive

touchLastActivity_skip(sts, c, t) == sts

\* `state.lastActivity = Date.now()`, ahead of the try block and JSON.parse
touchLastActivity(sts, c, t) == [sts EXCEPT ![c].lastActivity = t]

noGeminiService_never(sts, c) == FALSE

\* `if (!state.geminiService)`: the adapter reference is stored once the awaited
\* connect() has resolved
noGeminiService(sts, c) == ~sts[c].geminiService

\* ws.on('message'): handleClientMessage(c, data) for a message of one kind;
\* frame is data.frame of a video_frame and data.audio of an audio_chunk.  In a
\* linked run the message is the next one on the client's wire.
handleClientMessage(c, kind, frame) ==
    /\ received < limits.msgs
    /\ states[c].clientWs \in {OPEN, CLOSING}
    /\ received' = received + 1
    /\ lastMsg' = IF limits.trace
                  THEN [conn |-> c, type |-> kind, frame |-> frame,
                        established |-> /\ c \in connections
                                        /\ states[c].isActive
                                        /\ states[c].geminiService]
                  ELSE lastMsg
    /\ IF limits.linked
       THEN /\ taken < Len(transmitted)
            /\ transmitted[taken + 1].sock = c
            /\ transmitted[taken + 1].msg.type = kind
            /\ taken' = taken + 1
       ELSE taken' = taken
    /\ IF ignoresMessage(c)
       THEN UNCHANGED <<connections, states, gemini, cleanupCalls>>
       ELSE LET sts == touchLastActivity(states, c, now)
            IN IF kind = "malformed"
               \* JSON.parse raises; the catch block logs
               THEN /\ states' = sts
                    /\ UNCHANGED <<connections, gemini, cleanupCalls>>
               ELSE IF noGeminiService(sts, c)
               \* "Gemini service not ready, dropping message"
               THEN /\ states' = sts
                    /\ UNCHANGED <<connections, gemini, cleanupCalls>>
               ELSE CASE kind = "video_frame" /\ frame # <<>> /\ IsString(frame) ->
                         /\ states' = [sts EXCEPT ![c].frameCount = @ + 1]
                         /\ gemini' = [gemini EXCEPT ![c] =
                               gSendMessage(@, MediaChunk("image/jpeg",
                                   stripDataUrl(frame, ImageHead)), FALSE)]
                         /\ UNCHANGED <<connections, cleanupCalls>>
                      [] kind = "video_frame" /\ frame # <<>> /\ ~IsString(frame) ->
                         \* state.frameCount++ is done when frame.replace raises;
                         \* the catch block logs
                         /\ states' = [sts EXCEPT ![c].frameCount = @ + 1]
                         /\ UNCHANGED <<connections, gemini, cleanupCalls>>
                      [] kind = "audio_chunk" /\ frame # <<>> /\ IsString(frame) ->
                         /\ states' = sts
                         /\ gemini' = [gemini EXCEPT ![c] =
                               gSendMessage(@, MediaChunk("audio/pcm",
                                   stripDataUrl(frame, AudioHead)), FALSE)]
                         /\ UNCHANGED <<connections, cleanupCalls>>
                      [] kind = "text" ->
                         /\ states' = sts
                         /\ gemini' = [gemini EXCEPT ![c] = handleText(@, received + 1)]
                         /\ UNCHANGED <<connections, cleanupCalls>>
                      [] kind = "end" ->
                         /\ SetRelayState(cleanupConnection(
                               [connections |-> connections, states |-> sts,
                                gemini |-> gemini], c))
                         /\ cleanupCalls' = [cleanupCalls EXCEPT ![c] = @ + 1]
                      [] OTHER ->
                         /\ states' = sts
                         /\ UNCHANGED <<connections, gemini, cleanupCalls>>
    /\ UNCHANGED <<created, now, toClient, lastSweep, limits, clientVars,
                   upVars, obsVars, procVars, drainVars>>

ClientVideoFrame ==
    \E c \in 1..created, frame \in limits.frames : handleClientMessage(c, "video_frame", frame)

ClientAudioChunk ==
    \E c \in 1..created, frame \in limits.frames : handleClientMessage(c, "audio_chunk", frame)

ClientText == \E c \in 1..created : handleClientMessage(c, "text", <<>>)

ClientEnd == \E c \in 1..created : handleClientMessage(c, "end", <<>>)

ClientUnknown == \E c \in 1..created : handleClientMessage(c, "unknown", <<>>)

\* data that is not JSON
ClientMalformed == \E c \in 1..created : handleClientMessage(c, "malformed", <<>>)

\* ws.on('error') of client socket c: the library moves the socket to CLOSING and
\* emits `error`; the handler calls cleanupConnection.
ClientWsError ==
    \E c \in 1..created :
        /\ states[c].clientWs = OPEN
        /\ SetRelayState(cleanupConnection(
              [connections |-> connections,
               states |-> [states EXCEPT ![c].clientWs = CLOSING],
               gemini |-> gemini], c))
        /\ cleanupCalls' = [cleanupCalls EXCEPT ![c] = @ + 1]
        /\ UNCHANGED <<created, now, toClient, received, lastSweep, limits, clientVars, extraVars>>

\* The closing handshake of client socket c begins (the peer's close frame
\* arrives): readyState is CLOSING from now on, and the `close` event, with its
\* handler, comes later.
ClientWsClosing ==
    \E c \in 1..created :
        /\ states[c].clientWs = OPEN
        /\ states' = [states EXCEPT ![c].clientWs = CLOSING]
        /\ UNCHANGED <<connections, gemini, created, now, toClient, received,
                       cleanupCalls, lastSweep, limits, clientVars, extraVars>>

\* ws.on('close') of client socket c: the handler calls cleanupConnection.
ClientWsClose ==
    \E c \in 1..created :
        /\ states[c].clientWs \in {OPEN, CLOSING}
        /\ SetRelayState(cleanupConnection(
              [connections |-> connections,
               states |-> [states EXCEPT ![c].clientWs = CLOSED],
               gemini |-> gemini], c))
        /\ cleanupCalls' = [cleanupCalls EXCEPT ![c] = @ + 1]
        /\ UNCHANGED <<created, now, toClient, received, lastSweep, limits, clientVars, extraVars>>

\* RealityLensWebSocketServer.cleanupStaleConnections: the setInterval callback.
RECURSIVE SweepOver(_, _, _)
SweepOver(r, ids, t) ==
    IF ids = {} THEN r
    ELSE LET c == CHOOSE x \in ids : \A y \in ids : x <= y
         IN SweepOver(IF IsStale(t, r.states[c].lastActivity)
                      THEN cleanupConnection(r, c) ELSE r,
                      ids \ {c}, t)

cleanupStaleConnections ==
    /\ cleanupInterval
    /\ created > 0
    /\ LET r == SweepOver(RelayState, connections, now)
       IN /\ SetRelayState(r)
          /\ cleanupCalls' = [c \in ConnIds |->
                IF c \in connections /\ IsStale(now, states[c].lastActivity)
                THEN cleanupCalls[c] + 1 ELSE cleanupCalls[c]]
          /\ lastSweep' = IF r.connections = connections
                           THEN [lastSweep EXCEPT !.fresh = TRUE]
                           ELSE [removed |-> connections \ r.connections,
                                 kept |-> r.connections, at |-> now, fresh |-> TRUE]
    /\ UNCHANGED <<created, now, toClient, received, limits, clientVars, extraVars>>

\* Time passes.
Tick ==
    /\ now < limits.ticks * limits.tickMs
    /\ now' = now + limits.tickMs
    /\ lastSweep' = [lastSweep EXCEPT !.fresh = FALSE]
    /\ UNCHANGED <<connections, states, gemini, created, toClient, received,
                   cleanupCalls, limits, clientVars, extraVars>>

SweepDue_everyOther(t) == t > 0 /\ t % (2 * sweepInterval) = 0

\* The times at which the constructor's setInterval callback is due, the clock
\* starting at 0 with the constructor.
SweepDue(t) == t > 0 /\ t % sweepInterval = 0

\* The setInterval callback is due and has not run at this time yet.
SweepPending == cleanupInterval /\ created > 0 /\ SweepDue(now) /\ ~lastSweep.fresh

\* The setInterval callback, at its time: cleanupStaleConnections().
IntervalFires ==
    /\ SweepPending
    /\ cleanupStaleConnections

\* Time passes in a run whose sweep is on its timer: not past a time at which
\* the callback is due and has not run.
IntervalTick ==
    /\ ~SweepPending
    /\ now < limits.ticks * limits.tickMs
    /\ now' = now + limits.tickMs
    /\ lastSweep' = [lastSweep EXCEPT !.fresh = FALSE]
    /\ UNCHANGED <<connections, states, gemini, created, toClient, received,
                   cleanupCalls, limits, clientVars, extraVars>>

\* RealityLensWebSocketServer.shutdown on the relay state r: clearInterval, then
\* cleanupConnection for every key of the Map in insertion order, then
\* wss.close().  `log` is the order of the steps.
RECURSIVE CleanupAll(_, _, _)
CleanupAll(r, ids, log) ==
    IF ids = {} THEN [r |-> r, log |-> log]
    ELSE LET c == CHOOSE x \in ids : \A y \in ids : x <= y
         IN CleanupAll(cleanupConnection(r, c), ids \ {c}, Append(log, "cleanupConnection"))

shutdown_keepInterval(r) ==
    LET all == CleanupAll(r, r.connections, <<>>)
    IN [r |-> all.r, cleanupInterval |-> TRUE, listening |-> FALSE,
        log |-> Append(all.log, "wss.close")]

shutdown(r) ==
    LET all == CleanupAll(r, r.connections, <<"clearInterval">>)
    IN [r |-> all.r, cleanupInterval |-> FALSE, listening |-> FALSE,
        log |-> Append(all.log, "wss.close")]

\* process.on('SIGTERM') and process.on('SIGINT'), two handlers with one body:
\* wsServer.shutdown(), then server.close(callback).  The first signal of a run.
SignalHandler ==
    /\ shutdownLog = <<>>
    /\ exitCode = "running"
    /\ LET r == shutdown(RelayState)
       IN /\ SetRelayState(r.r)
          /\ cleanupInterval' = r.cleanupInterval
          /\ listening' = r.listening
          /\ shutdownLog' = Append(r.log, "server.close")
          /\ cleanupCalls' = [c \in ConnIds |->
                IF c \in connections THEN cleanupCalls[c] + 1 ELSE cleanupCalls[c]]
    /\ UNCHANGED <<created, now, toClient, received, lastSweep, limits, exitCode,
                   clientVars, recvVars, upVars, obsVars, drainVars>>

\* The callback of server.close(): the HTTP server emits `close` once it has
\* stopped listening and every socket it accepted has ended; process.exit(0).
ServerClosed ==
    /\ shutdownLog # <<>>
    /\ exitCode = "running"
    /\ \A c \in 1..created : states[c].clientWs = CLOSED
    /\ exitCode' = "0"
    /\ UNCHANGED <<relayVars, clientVars, recvVars, upVars, obsVars, drainVars,
                   cleanupInterval, listening, shutdownLog>>

\* ======================================================================
\*              The session: the client's socket at the Relay
\* ======================================================================
\* In a linked run the client's first WebSocket is the Relay's connection 1.
SessionConn == 1

\* message.data?.field
Field(data, field) == IF field \in DOMAIN data THEN data[field] ELSE Undefined

\* value || fallback, for a string or undefined
OrElse(value, fallback) == IF value \in {Undefined, ""} THEN fallback ELSE value

\* GeminiLiveClient.handleServerMessage(message) on the observers' logs
\* o = [onResponseCalls, onErrorCalls].
handleServerMessage_envelope(o, message) ==
    CASE message.type = "response" ->
            [o EXCEPT !.onResponseCalls = Append(@,
                [text |-> OrElse(Field(message.data, "text"), ""),
                 audio |-> Field(message.data, "audio"),
                 raw |-> message])]
      [] message.type = "error" ->
            [o EXCEPT !.onErrorCalls = Append(@,
                OrElse(Field(message.data, "error"), "Unknown error"))]
      [] OTHER -> o

handleServerMessage_strict(o, message) ==
    CASE message.type = "response" ->
            [o EXCEPT !.onResponseCalls = Append(@,
                [text |-> OrElse(Field(message.data, "text"), ""),
                 audio |-> Field(message.data, "audio"),
                 raw |-> message.data])]
      [] message.type \in {"connected", "status"} -> o
      [] OTHER -> [o EXCEPT !.onErrorCalls = Append(@, "Unknown error")]

handleServerMessage(o, message) ==
    CASE message.type = "response" ->
            [o EXCEPT !.onResponseCalls = Append(@,
                [text |-> OrElse(Field(message.data, "text"), ""),
                 audio |-> Field(message.data, "audio"),
                 raw |-> message.data])]
      [] message.type = "error" ->
            [o EXCEPT !.onErrorCalls = Append(@,
                OrElse(Field(message.data, "error"), "Unknown error"))]
      [] OTHER -> o

\* ws.onmessage of the client's socket: the next ServerMessage the Relay sent
\* on it arrives.
ServerMessageArrives ==
    /\ limits.linked
    /\ SessionConn <= Len(sockets)
    /\ sockets[SessionConn].readyState \in {OPEN, CLOSING}
    /\ delivered < Len(toClient[SessionConn])
    /\ delivered' = delivered + 1
    /\ lastServerMsg' = IF limits.trace THEN toClient[SessionConn][delivered + 1]
                        ELSE lastServerMsg
    /\ LET o == handleServerMessage(
                    [onResponseCalls |-> onResponseCalls, onErrorCalls |-> onErrorCalls],
                    toClient[SessionConn][delivered + 1])
       IN /\ onResponseCalls' = o.onResponseCalls
          /\ onErrorCalls' = o.onErrorCalls
    /\ UNCHANGED <<ws, isConnected, reconnectAttempts, messageQueue, shouldReconnect,
                   sockets, timers, transmitted, sendFaults, issued, issuedClosed,
                   scheduled, failedInRow, onConnectionCalls, relayVars, recvVars,
                   upVars, procVars, drainVars>>

\* ws.onmessage of a client socket in a run where the server end is any server:
\* a message arrives that is a ServerMessage, JSON of an unknown type, or not
\* JSON at all ([type |-> "malformed"]: JSON.parse raises, the catch block logs).
onmessage ==
    \E s \in 1..Len(sockets), message \in limits.serverMsgs :
        /\ ~limits.linked
        /\ sockets[s].readyState \in {OPEN, CLOSING}
        /\ sockets[s].opened
        /\ delivered < limits.downMsgs
        /\ delivered' = delivered + 1
        /\ lastServerMsg' = IF limits.trace THEN message ELSE lastServerMsg
        /\ LET o == handleServerMessage(
                        [onResponseCalls |-> onResponseCalls,
                         onErrorCalls |-> onErrorCalls], message)
           IN /\ onResponseCalls' = o.onResponseCalls
              /\ onErrorCalls' = o.onErrorCalls
        /\ UNCHANGED <<ws, isConnected, reconnectAttempts, messageQueue,
                       shouldReconnect, sockets, timers, transmitted, sendFaults,
                       issued, issuedClosed, scheduled, failedInRow,
                       onConnectionCalls, relayVars, recvVars, upVars, procVars, drainVars>>

NextRelay ==
    \/ ClientConnect
    \/ GeminiOpen
    \/ GeminiClose
    \/ GeminiReconnectTimer
    \/ ClientVideoFrame
    \/ ClientAudioChunk
    \/ ClientText
    \/ ClientEnd
    \/ ClientUnknown
    \/ ClientWsError
    \/ ClientWsClose

\* ======================================================================
\*                            Specifications
\* ======================================================================
NextClient ==
    \/ AppConnect
    \/ ReconnectTimer
    \/ SocketOpen
    \/ SocketClose
    \/ sendVideoFrame
    \/ sendAudioChunk
    \/ sendText
    \/ disconnect

NoRelay == [clientSockets |-> 0, clientMsgs |-> 0, conns |-> 0, sockets |-> 0,
            msgs |-> 0, ticks |-> 0, tickMs |-> TickMs, frames |-> {BareFrame},
            upMsgs |-> 0, envelopes |-> {}, serverMsgs |-> {}, downMsgs |-> 0,
            linked |-> FALSE, trace |-> FALSE]

\* The state of the inbound sides, the upstream endpoint and the server process
\* after construction.
InitExtra ==
    /\ lastMsg = [conn |-> 0, type |-> "none", frame |-> <<>>, established |-> FALSE]
    /\ taken = 0
    /\ upstreamMsgs = 0
    /\ lastEnvelope = [conn |-> 0, envelope |-> [kind |-> "none"]]
    /\ onResponseCalls = <<>>
    /\ delivered = 0
    /\ lastServerMsg = [type |-> "none"]
    /\ onConnectionCalls = <<>>
    /\ cleanupInterval = TRUE
    /\ listening = TRUE
    /\ shutdownLog = <<>>
    /\ exitCode = "running"
    /\ clientShifted = <<>>
    /\ adapterShifted = <<>>

\* The StreamingClient in a browser, whose WebSocket.send() on an OPEN socket
\* does not raise.
Init ==
    /\ InitClient /\ sendFaults = 0 /\ InitRelay /\ InitExtra
    /\ limits = [NoRelay EXCEPT !.clientSockets = MaxSockets, !.clientMsgs = MaxMsgs]

Next == NextClient

Spec == Init /\ [][Next]_vars

\* The StreamingClient on a transport whose send() may raise: the catch branch
\* of sendMessage.
InitFaulty ==
    /\ InitClient /\ sendFaults = MaxSendErrors /\ InitRelay /\ InitExtra
    /\ limits = [NoRelay EXCEPT !.clientSockets = FaultySockets,
                                !.clientMsgs = FaultyMsgs]

SpecFaulty == InitFaulty /\ [][Next]_vars

\* The Relay serving two clients, with their UpstreamAdapters.
InitServer ==
    /\ InitClient /\ sendFaults = 0 /\ InitRelay /\ InitExtra
    /\ limits = [NoRelay EXCEPT !.conns = Cardinality(ConnIds),
                                !.sockets = RelaySockets,
                                !.msgs = RelayMsgs]

SpecRelay == InitServer /\ [][NextRelay]_vars

\* The Relay serving two clients, with the clock and the idle sweep.  Each
\* adapter keeps to its first upstream socket: its reconnect timers stay pending
\* (SpecRelay and SpecEndpoints run them).
InitSweep ==
    /\ InitClient /\ sendFaults = 0 /\ InitRelay /\ InitExtra
    /\ limits = [NoRelay EXCEPT !.conns = Cardinality(ConnIds),
                                !.sockets = Cardinality(ConnIds),
                                !.msgs = SweepMsgs,
                                !.ticks = MaxTicks]

NextSweep ==
    \/ ClientConnect
    \/ GeminiOpen
    \/ GeminiClose
    \/ ClientVideoFrame
    \/ ClientAudioChunk
    \/ ClientText
    \/ ClientEnd
    \/ ClientUnknown
    \/ ClientWsError
    \/ ClientWsClose
    \/ cleanupStaleConnections
    \/ Tick

SpecSweep == InitSweep /\ [][NextSweep]_vars

\* The two reconnecting endpoints side by side, connections only (no message is
\* sent): the StreamingClient in its browser, and the Relay serving one client
\* with its UpstreamAdapter.
InitEndpoints ==
    /\ InitClient /\ sendFaults = 0 /\ InitRelay /\ InitExtra
    /\ limits = [NoRelay EXCEPT !.clientSockets = EndpointSockets,
                                !.conns = 1,
                                !.sockets = EndpointSockets]

NextEndpoints ==
    \/ AppConnect
    \/ ReconnectTimer
    \/ SocketOpen
    \/ SocketClose
    \/ disconnect
    \/ ClientConnect
    \/ GeminiOpen
    \/ GeminiClose
    \/ GeminiReconnectTimer
    \/ ClientWsError
    \/ ClientWsClose

SpecEndpoints == InitEndpoints /\ [][NextEndpoints]_vars

\* One session end to end: the StreamingClient in its browser on its first
\* socket, the Relay serving it as connection 1 with its UpstreamAdapter, and the
\* upstream endpoint.  What the client puts on its wire is what the Relay
\* receives, and what the Relay sends on the client socket is what the client
\* receives.  The client and the adapter keep to their first sockets: their
\* reconnect timers stay pending.
SessionEnvelopes ==
    {[kind |-> "setupComplete"],
     ContentEnvelope(<<TextPart("hi there")>>),
     ContentEnvelope(<<TextPart("")>>)}

InitSession ==
    /\ InitClient /\ sendFaults = 0 /\ InitRelay /\ InitExtra
    /\ limits = [NoRelay EXCEPT !.clientSockets = 1,
                                !.clientMsgs = SessionMsgs,
                                !.conns = 1,
                                !.sockets = SessionSockets,
                                !.msgs = SessionMsgs + 1,
                                !.upMsgs = SessionUpMsgs,
                                !.envelopes = SessionEnvelopes,
                                !.linked = TRUE,
                                !.trace = TRUE]

NextSession ==
    \/ AppConnect
    \/ SocketOpen
    \/ SocketClose
    \/ sendVideoFrame
    \/ sendAudioChunk
    \/ sendText
    \/ disconnect
    \/ ServerMessageArrives
    \/ ClientConnect
    \/ GeminiOpen
    \/ GeminiClose
    \/ GeminiMessage
    \/ ClientVideoFrame
    \/ ClientAudioChunk
    \/ ClientText
    \/ ClientEnd
    \/ ClientWsClose

SpecSession == InitSession /\ [][NextSession]_vars

\* The Relay serving two clients whose upstream endpoint may refuse every
\* connection: enough upstream sockets for one adapter to use up its reconnect
\* attempts.
InitAdapters ==
    /\ InitClient /\ sendFaults = 0 /\ InitRelay /\ InitExtra
    /\ limits = [NoRelay EXCEPT !.conns = Cardinality(ConnIds),
                                !.sockets = AdapterSockets]

NextAdapters ==
    \/ ClientConnect
    \/ GeminiOpen
    \/ GeminiClose
    \/ GeminiReconnectTimer
    \/ ClientWsClose

SpecAdapters == InitAdapters /\ [][NextAdapters]_vars

\* The Relay serving one client that sends one frame or audio string, any
\* string of up to FrameLen tokens, as video_frame or as audio_chunk messages.
InitFrames ==
    /\ InitClient /\ sendFaults = 0 /\ InitRelay /\ InitExtra
    /\ \E frame \in FramesUpTo(FrameLen) :
          limits = [NoRelay EXCEPT !.conns = 1,
                                   !.sockets = 1,
                                   !.msgs = FrameMsgs,
                                   !.frames = {frame},
                                   !.trace = TRUE]

NextFrames ==
    \/ ClientConnect
    \/ GeminiOpen
    \/ ClientVideoFrame
    \/ ClientAudioChunk

SpecFrames == InitFrames /\ [][NextFrames]_vars

\* The server process: the Relay serving two clients, with the clock, the idle
\* sweep and the termination signals.  No client message is sent and each
\* adapter keeps to its first upstream socket.
InitProcess ==
    /\ InitClient /\ sendFaults = 0 /\ InitRelay /\ InitExtra
    /\ limits = [NoRelay EXCEPT !.conns = Cardinality(ConnIds),
                                !.sockets = Cardinality(ConnIds),
                                !.ticks = ShutdownTicks]

NextProcess ==
    \/ ClientConnect
    \/ GeminiOpen
    \/ GeminiClose
    \/ ClientWsClose
    \/ cleanupStaleConnections
    \/ Tick
    \/ SignalHandler
    \/ ServerClosed

SpecProcess == InitProcess /\ [][NextProcess]_vars

\* The Relay serving two clients side by side, each with its UpstreamAdapter
\* and an upstream endpoint that replies.
PairEnvelopes == {ContentEnvelope(<<TextPart("hi there")>>)}

InitPair ==
    /\ InitClient /\ sendFaults = 0 /\ InitRelay /\ InitExtra
    /\ limits = [NoRelay EXCEPT !.conns = Cardinality(ConnIds),
                                !.sockets = PairSockets,
                                !.msgs = PairMsgs,
                                !.upMsgs = PairUpMsgs,
                                !.envelopes = PairEnvelopes]

NextPair ==
    \/ ClientConnect
    \/ GeminiOpen
    \/ GeminiClose
    \/ GeminiReconnectTimer
    \/ GeminiMessage
    \/ ClientVideoFrame
    \/ ClientWsClose

SpecPair == InitPair /\ [][NextPair]_vars

\* The Relay serving one client whose upstream transport closes and reconnects
\* while video frames and audio chunks arrive.
InitQueue ==
    /\ InitClient /\ sendFaults = 0 /\ InitRelay /\ InitExtra
    /\ limits = [NoRelay EXCEPT !.conns = 1,
                                !.sockets = QueueSockets,
                                !.msgs = QueueMsgs,
                                !.trace = TRUE]

NextQueue ==
    \/ ClientConnect
    \/ GeminiOpen
    \/ GeminiClose
    \/ GeminiReconnectTimer
    \/ ClientVideoFrame
    \/ ClientAudioChunk

SpecQueue == InitQueue /\ [][NextQueue]_vars

\* The Relay serving two clients that send every kind of message, well-formed
\* or not, before and after the upstream link is stored and after cleanup,
\* while the clock moves.  Each adapter keeps to its first upstream socket.
InitInbound ==
    /\ InitClient /\ sendFaults = 0 /\ InitRelay /\ InitExtra
    /\ limits = [NoRelay EXCEPT !.conns = Cardinality(ConnIds),
                                !.sockets = Cardinality(ConnIds),
                                !.msgs = InboundMsgs,
                                !.ticks = InboundTicks,
                                !.trace = TRUE]

NextInbound ==
    \/ ClientConnect
    \/ GeminiOpen
    \/ ClientVideoFrame
    \/ ClientAudioChunk
    \/ ClientText
    \/ ClientEnd
    \/ ClientUnknown
    \/ ClientMalformed
    \/ ClientWsClose
    \/ Tick

SpecInbound == InitInbound /\ [][NextInbound]_vars

\* The three receivers with messages they cannot parse.  The Relay serves one
\* client whose messages are video frames, JSON of an unknown type and data that
\* is not JSON, while the clock moves; the upstream endpoint sends the adapter a
\* content envelope, JSON of an unknown shape and data that is not JSON; and a
\* StreamingClient on its first socket gets a response, JSON of an unknown type
\* and data that is not JSON from its server.
ParseEnvelopes ==
    {[kind |-> "malformed"], [kind |-> "unknown"],
     ContentEnvelope(<<TextPart("hi there")>>)}

ParseServerMsgs ==
    {[type |-> "malformed"], [type |-> "unknown"], TextResponse("hi there")}

InitParse ==
    /\ InitClient /\ sendFaults = 0 /\ InitRelay /\ InitExtra
    /\ limits = [NoRelay EXCEPT !.clientSockets = 1,
                                !.conns = 1,
                                !.sockets = 1,
                                !.msgs = ParseMsgs,
                                !.ticks = InboundTicks,
                                !.upMsgs = ParseMsgs,
                                !.envelopes = ParseEnvelopes,
                                !.downMsgs = ParseMsgs,
                                !.serverMsgs = ParseServerMsgs,
                                !.trace = TRUE]

NextParse ==
    \/ AppConnect
    \/ SocketOpen
    \/ onmessage
    \/ ClientConnect
    \/ GeminiOpen
    \/ GeminiMessage
    \/ ClientVideoFrame
    \/ ClientUnknown
    \/ ClientMalformed
    \/ Tick

SpecParse == InitParse /\ [][NextParse]_vars

\* The StreamingClient with a connection-state observer configured, whose
\* calls are recorded, and a WebSocket.send() that may raise.
InitOpen ==
    /\ InitClient /\ sendFaults = MaxSendErrors /\ InitRelay /\ InitExtra
    /\ limits = [NoRelay EXCEPT !.clientSockets = OpenSockets,
                                !.clientMsgs = OpenMsgs,
                                !.trace = TRUE]

SpecOpen == InitOpen /\ [][Next]_vars

\* One session end to end, as in SpecSession, in which the client socket at the
\* Relay may be closing for a while before its `close` event is handled, so that
\* the adapter hands the Relay messages for a socket that is in the mapping and
\* not open.
InitTransport ==
    /\ InitClient /\ sendFaults = 0 /\ InitRelay /\ InitExtra
    /\ limits = [NoRelay EXCEPT !.clientSockets = 1,
                                !.clientMsgs = TransportMsgs,
                                !.conns = 1,
                                !.sockets = 1,
                                !.msgs = TransportMsgs + 1,
                                !.upMsgs = TransportMsgs,
                                !.envelopes = PairEnvelopes,
                                !.linked = TRUE,
                                !.trace = TRUE]

NextTransport ==
    \/ AppConnect
    \/ SocketOpen
    \/ SocketClose
    \/ sendVideoFrame
    \/ disconnect
    \/ ServerMessageArrives
    \/ ClientConnect
    \/ GeminiOpen
    \/ GeminiClose
    \/ GeminiMessage
    \/ ClientVideoFrame
    \/ ClientEnd
    \/ ClientWsClosing
    \/ ClientWsClose

SpecTransport == InitTransport /\ [][NextTransport]_vars

\* The Relay serving one client, with the idle sweep run by its timer every 30
\* seconds on a clock that moves in steps of 10 seconds.
InitIdle ==
    /\ InitClient /\ sendFaults = 0 /\ InitRelay /\ InitExtra
    /\ limits = [NoRelay EXCEPT !.conns = 1,
                                !.sockets = 1,
                                !.msgs = IdleMsgs,
                                !.ticks = IdleTicks,
                                !.tickMs = IdleTickMs]

NextIdle ==
    \/ ClientConnect
    \/ GeminiOpen
    \/ ClientVideoFrame
    \/ ClientUnknown
    \/ IntervalFires
    \/ IntervalTick

SpecIdle == InitIdle /\ [][NextIdle]_vars

\* The Relay serving one client whose upstream endpoint sends every shape of
\* envelope, and whose upstream transport may fail, close and reconnect, so that
\* every kind of ServerMessage is sent.
BothPart == [text |-> "look", mimeType |-> "audio/wav", data |-> "UklGRg"]

ImagePart == [text |-> "", mimeType |-> "image/png", data |-> "iVBORw"]

TwoParts == ContentEnvelope(<<TextPart("hi there"), AudioPart("AAAA")>>)

AudioThenText == ContentEnvelope(<<AudioPart("AAAA"), TextPart("hi there")>>)

ShapeEnvelopes ==
    {[kind |-> "setupComplete"], [kind |-> "unknown"], [kind |-> "malformed"],
     TwoParts, AudioThenText,
     ContentEnvelope(<<BothPart>>),
     ContentEnvelope(<<ImagePart, TextPart("")>>),
     ContentEnvelope(<<>>)}

InitEnvelopes ==
    /\ InitClient /\ sendFaults = 0 /\ InitRelay /\ InitExtra
    /\ limits = [NoRelay EXCEPT !.conns = 1,
                                !.sockets = 2,
                                !.upMsgs = EnvelopeMsgs,
                                !.envelopes = ShapeEnvelopes,
                                !.trace = TRUE]

NextEnvelopes ==
    \/ ClientConnect
    \/ GeminiOpen
    \/ GeminiClose
    \/ GeminiReconnectTimer
    \/ GeminiMessage
    \/ ClientWsClose

SpecEnvelopes == InitEnvelopes /\ [][NextEnvelopes]_vars

\* The two reconnecting endpoints side by side, each with enough sockets to use
\* up its reconnect attempts and fail once more: the StreamingClient, and the
\* UpstreamAdapter of the one connection the Relay serves.
InitCeiling ==
    /\ InitClient /\ sendFaults = 0 /\ InitRelay /\ InitExtra
    /\ limits = [NoRelay EXCEPT !.clientSockets = CeilingSockets,
                                !.conns = 1,
                                !.sockets = CeilingSockets]

NextCeiling ==
    \/ AppConnect
    \/ ReconnectTimer
    \/ SocketOpen
    \/ SocketClose
    \/ ClientConnect
    \/ GeminiOpen
    \/ GeminiClose
    \/ GeminiReconnectTimer
    \/ ClientWsClose

SpecCeiling == InitCeiling /\ [][NextCeiling]_vars

\* The Relay serving one client that sends every kind of message, with frames
\* that are a bare payload, a data URL, empty, or not a string, while the
\* upstream transport may open late or close.
CountFrames == {BareFrame, <<ImageHead, WordChar, Base64Mark, WordChar>>, <<>>, NumberFrame}

InitCount ==
    /\ InitClient /\ sendFaults = 0 /\ InitRelay /\ InitExtra
    /\ limits = [NoRelay EXCEPT !.conns = 1,
                                !.sockets = 1,
                                !.msgs = CountMsgs,
                                !.frames = CountFrames,
                                !.trace = TRUE]

NextCount ==
    \/ ClientConnect
    \/ GeminiOpen
    \/ GeminiClose
    \/ ClientVideoFrame
    \/ ClientAudioChunk
    \/ ClientText
    \/ ClientEnd
    \/ ClientUnknown
    \/ ClientMalformed

SpecCount == InitCount /\ [][NextCount]_vars

\* The two drains, one loop round per step.  Each open handler has done its
\* assignments and stands at the head of processQueue(): the StreamingClient's
\* first socket has opened with up to DrainLen messages queued while it was
\* connecting; the UpstreamAdapter of connection 1 has reconnected on its second
\* socket and sent the setup message, with up to DrainLen chunks queued since
\* the first socket closed.  In a round ws.send may raise, and between rounds
\* the transport may stop being open.  The client runs in the browser and the
\* adapter in the server process, so their rounds interleave.
DrainKinds == {"video_frame", "audio_chunk"}

DrainQueues == UNION {[1..n -> DrainKinds] : n \in 0..DrainLen}

InitDrain ==
    /\ \E q \in DrainQueues :
          /\ messageQueue = [i \in 1..Len(q) |-> ClientMessage(q[i], i)]
          /\ issued = Len(q)
          /\ issuedClosed = 1..Len(q)
    /\ ws = 1
    /\ sockets = <<[readyState |-> OPEN, by |-> "app", opened |-> TRUE]>>
    /\ isConnected = TRUE
    /\ reconnectAttempts = 0
    /\ shouldReconnect = TRUE
    /\ timers = <<>>
    /\ transmitted = <<>>
    /\ onErrorCalls = <<>>
    /\ scheduled = {}
    /\ failedInRow = 0
    /\ sendFaults = 0
    /\ connections = {1}
    /\ created = 1
    /\ now = 0
    /\ cleanupCalls = [c \in ConnIds |-> 0]
    /\ lastSweep = [removed |-> {}, kept |-> {}, at |-> 0, fresh |-> FALSE]
    /\ toClient = [c \in ConnIds |->
                      IF c = 1 THEN <<StatusMessage("initializing")>> ELSE <<>>]
    /\ \E q \in DrainQueues :
          /\ received = Len(q)
          /\ states = [c \in ConnIds |->
                IF c = 1
                THEN [clientWs |-> OPEN, geminiService |-> TRUE, isActive |-> TRUE,
                      lastActivity |-> 0,
                      frameCount |-> Cardinality({i \in 1..Len(q) : q[i] = "video_frame"})]
                ELSE NoState]
          /\ gemini = [c \in ConnIds |->
                IF c = 1
                THEN [NewService EXCEPT
                        !.sockets = <<[readyState |-> CLOSED, by |-> "relay", opened |-> TRUE],
                                      [readyState |-> OPEN, by |-> "timer", opened |-> TRUE]>>,
                        !.ws = 2,
                        !.isConnected = TRUE,
                        !.scheduled = {<<1, gBackoff(1)>>},
                        !.wire = <<[sock |-> 1, msg |-> SetupMessage],
                                   [sock |-> 2, msg |-> SetupMessage]>>,
                        !.messageQueue = [i \in 1..Len(q) |->
                            MediaChunk(IF q[i] = "video_frame" THEN "image/jpeg"
                                       ELSE "audio/pcm", BareFrame)]]
                ELSE NewService]
    /\ InitExtra
    /\ limits = [NoRelay EXCEPT !.clientSockets = 1, !.conns = 1, !.sockets = 2,
                                !.trace = TRUE]

\* GeminiLiveClient.processQueue, a round of the while loop: the test holds,
\* `const message = this.messageQueue.shift()`.
ClientDrainShift ==
    /\ onConnectionCalls = <<>>
    /\ clientShifted = <<>>
    /\ messageQueue # <<>>
    /\ WsOpen(ws, sockets)
    /\ clientShifted' = <<Head(messageQueue)>>
    /\ messageQueue' = Tail(messageQueue)
    /\ UNCHANGED <<ws, isConnected, reconnectAttempts, shouldReconnect, sockets,
                   timers, transmitted, onErrorCalls, sendFaults, issued,
                   issuedClosed, scheduled, failedInRow, relayVars, recvVars,
                   upVars, obsVars, procVars, adapterShifted>>

\* The rest of the round: `this.sendMessage(message)`, whose ws.send may raise.
ClientDrainSend ==
    /\ clientShifted # <<>>
    /\ \E throws \in BOOLEAN :
          LET r == sendMessage(clientShifted[1], messageQueue, transmitted,
                               ws, WsOpen(ws, sockets), throws)
          IN /\ messageQueue' = r.queue
             /\ transmitted' = r.wire
    /\ clientShifted' = <<>>
    /\ UNCHANGED <<ws, isConnected, reconnectAttempts, shouldReconnect, sockets,
                   timers, onErrorCalls, sendFaults, issued, issuedClosed, scheduled,
                   failedInRow, relayVars, recvVars, upVars, obsVars, procVars,
                   adapterShifted>>

\* The test of the while loop fails: processQueue() returns to the open
\* handler, which calls config.onConnection(true).
ClientDrainExit ==
    /\ onConnectionCalls = <<>>
    /\ clientShifted = <<>>
    /\ ~(messageQueue # <<>> /\ WsOpen(ws, sockets))
    /\ onConnectionCalls' = onConnection(onConnectionCalls, TRUE)
    /\ UNCHANGED <<clientVars, relayVars, recvVars, upVars, onResponseCalls,
                   delivered, lastServerMsg, procVars, drainVars>>

\* The client's transport stops being open while its drain is under way.
ClientTransportStops ==
    /\ onConnectionCalls = <<>>
    /\ WsOpen(ws, sockets)
    /\ sockets' = [sockets EXCEPT ![ws].readyState = CLOSING]
    /\ UNCHANGED <<ws, isConnected, reconnectAttempts, messageQueue, shouldReconnect,
                   timers, transmitted, onErrorCalls, sendFaults, issued,
                   issuedClosed, scheduled, failedInRow, relayVars, extraVars>>

\* GeminiLiveService.processQueue of connection 1's adapter, a round of the
\* while loop: the queue is not empty, `const message = this.messageQueue.shift()`.
AdapterDrainShift ==
    /\ 1 \in connections
    /\ adapterShifted = <<>>
    /\ gemini[1].messageQueue # <<>>
    /\ adapterShifted' = <<Head(gemini[1].messageQueue)>>
    /\ gemini' = [gemini EXCEPT ![1].messageQueue = Tail(@)]
    /\ UNCHANGED <<connections, states, created, now, toClient, received,
                   cleanupCalls, lastSweep, limits, clientVars, recvVars, upVars,
                   obsVars, procVars, clientShifted>>

\* The rest of the round: `this.sendMessage(message)`, which queues the message
\* again when the transport is not open or ws.send raises.
AdapterDrainSend ==
    /\ adapterShifted # <<>>
    /\ \E throws \in BOOLEAN :
          gemini' = [gemini EXCEPT ![1] = gSendMessage(@, adapterShifted[1], throws)]
    /\ adapterShifted' = <<>>
    /\ UNCHANGED <<connections, states, created, now, toClient, received,
                   cleanupCalls, lastSweep, limits, clientVars, recvVars, upVars,
                   obsVars, procVars, clientShifted>>

\* The adapter's transport stops being open while its drain is under way.
AdapterTransportStops ==
    /\ 1 \in connections
    /\ gemini[1].messageQueue # <<>> \/ adapterShifted # <<>>
    /\ WsOpen(gemini[1].ws, gemini[1].sockets)
    /\ gemini' = [gemini EXCEPT ![1].sockets[gemini[1].ws].readyState = CLOSING]
    /\ UNCHANGED <<connections, states, created, now, toClient, received,
                   cleanupCalls, lastSweep, limits, clientVars, extraVars>>

NextDrain ==
    \/ ClientDrainShift
    \/ ClientDrainSend
    \/ ClientDrainExit
    \/ ClientTransportStops
    \/ AdapterDrainShift
    \/ AdapterDrainSend
    \/ AdapterTransportStops

\* Each loop, being synchronous code, goes on to the next statement it has.
SpecDrain ==
    /\ InitDrain
    /\ [][NextDrain]_vars
    /\ WF_vars(ClientDrainShift \/ ClientDrainSend \/ ClientDrainExit)
    /\ WF_vars(AdapterDrainShift \/ AdapterDrainSend)

\* ======================================================================
\*                               Claims
\* ======================================================================
TransmittedIds == {transmitted[i].msg.id : i \in 1..Len(transmitted)}

Count(seq, x) == Cardinality({i \in 1..Len(seq) : seq[i] = x})

Live(socks) == {i \in 1..Len(socks) : socks[i].readyState \in {CONNECTING, OPEN}}

\* A step in which the open event of a client socket is handled.
Opens(s) ==
    /\ s \in 1..Len(sockets)
    /\ Len(sockets') = Len(sockets)
    /\ sockets[s].readyState = CONNECTING
    /\ sockets'[s].readyState = OPEN

\* C1 -- FIFO preservation.  When the transport opens, the flush puts on the
\* wire, on the socket that opened, exactly the messages that were issued while
\* the transport was not open and are not transmitted yet, each once, in the
\* order they were issued; what was on the wire before stays as it was.
C1_FifoFlush ==
    [][\A s \in 1..Len(sockets) : Opens(s) =>
          LET pending == issuedClosed \ TransmittedIds
              n == Len(transmitted)
              flushed == SubSeq(transmitted', n + 1, Len(transmitted'))
          IN /\ SubSeq(transmitted', 1, n) = transmitted
             /\ Len(flushed) = Cardinality(pending)
             /\ \A i \in 1..Len(flushed) :
                   /\ flushed[i].msg.id \in pending
                   /\ flushed[i].sock = s
             /\ \A i, j \in 1..Len(flushed) :
                   i < j => flushed[i].msg.id < flushed[j].msg.id]_vars

\* C1 witness: two messages issued while the transport was not open went out
\* one after the other on the same socket.
C1_Witness ==
    \E i \in 1..Len(transmitted) :
        /\ i < Len(transmitted)
        /\ transmitted[i].msg.id \in issuedClosed
        /\ transmitted[i + 1].msg.id \in issuedClosed
        /\ transmitted[i].msg.type # "end"
        /\ transmitted[i + 1].msg.type # "end"
        /\ transmitted[i].sock = transmitted[i + 1].sock

\* C2 -- no message loss under a transient disconnect.  Whenever the client's
\* transport is open (the flush of its open event has run), every message that
\* was issued while the transport was not open has been transmitted.
C2_NoLoss ==
    WsOpen(ws, sockets) => issuedClosed \subseteq TransmittedIds

\* C2 witness: a message issued while the transport was not open went out on a
\* socket that a reconnect attempt opened, and that socket is the open transport.
C2_Witness ==
    /\ WsOpen(ws, sockets)
    /\ sockets[ws].by = "timer"
    /\ \E i \in 1..Len(transmitted) :
          /\ transmitted[i].sock = ws
          /\ transmitted[i].msg.id \in issuedClosed
          /\ transmitted[i].msg.type # "end"

\* C3 -- messages are never dropped silently.  Every message handed to the send
\* path so far is exactly once on the wire or exactly once in messageQueue, also
\* when ws.send raises, a socket closes, the retry ceiling is reached or
\* disconnect() is called.
C3_NeverDropped ==
    \A id \in 1..issued :
        Cardinality({i \in 1..Len(transmitted) : transmitted[i].msg.id = id})
          + Cardinality({i \in 1..Len(messageQueue) : messageQueue[i].id = id}) = 1

\* C3 witness: a ws.send raised, the retry ceiling was reached, disconnect() was
\* called, and a message of the application still waits in the queue.
C3_Witness ==
    /\ sendFaults < MaxSendErrors
    /\ Count(onErrorCalls, MaxReachedError) >= 1
    /\ ~shouldReconnect
    /\ \E i \in 1..Len(messageQueue) : messageQueue[i].type # "end"

\* C4 -- reconnect ceiling.  The terminal error is delivered at most once; it is
\* delivered when the third reconnect attempt in a row has failed, and then no
\* reconnect timer is pending and no transport is connecting or open.
C4_ReconnectCeiling ==
    /\ Count(onErrorCalls, MaxReachedError) <= 1
    /\ failedInRow <= 3
    /\ (failedInRow = 3 /\ shouldReconnect) =>
          /\ Count(onErrorCalls, MaxReachedError) = 1
          /\ timers = <<>>
          /\ Live(sockets) = {}
    /\ Count(onErrorCalls, MaxReachedError) = 1 =>
          /\ failedInRow = 3
          /\ timers = <<>>
          /\ Live(sockets) = {}

\* C4 witness: three reconnect attempts in a row have failed and the terminal
\* error has been delivered.
C4_Witness ==
    /\ failedInRow = 3
    /\ shouldReconnect
    /\ Count(onErrorCalls, MaxReachedError) = 1

\* C5 -- backoff schedule.  In the client and in every adapter, the k-th
\* reconnect attempt in a row is scheduled with 1000, 2000, 4000 ms for
\* k = 1, 2, 3, and no pending timer has any other delay.
BackoffSchedule == {<<1, 1000>>, <<2, 2000>>, <<3, 4000>>}

C5_BackoffSchedule ==
    /\ scheduled \subseteq BackoffSchedule
    /\ Range(timers) \subseteq {1000, 2000, 4000}
    /\ \A c \in ConnIds :
          /\ gemini[c].scheduled \subseteq BackoffSchedule
          /\ Range(gemini[c].timers) \subseteq {1000, 2000, 4000}

\* C5 witness: the client and an adapter have each scheduled all three attempts.
C5_Witness ==
    /\ scheduled = BackoffSchedule
    /\ \E c \in ConnIds : gemini[c].scheduled = BackoffSchedule

\* C6 -- disconnect scenario.  disconnect() on an open transport puts `end` on
\* the wire of that transport and then closes it, and from disconnect() on no
\* step (in particular not the close event that follows) adds a reconnect timer.
C6_DisconnectScenario ==
    [][/\ (shouldReconnect /\ ~shouldReconnect' /\ WsOpen(ws, sockets)) =>
             /\ Len(transmitted') = Len(transmitted) + 1
             /\ transmitted'[Len(transmitted')].msg.type = "end"
             /\ transmitted'[Len(transmitted')].sock = ws
             /\ sockets'[ws].readyState = CLOSING
             /\ timers' = timers
       /\ ~shouldReconnect => Len(timers') <= Len(timers)]_vars

\* C6 witness: `end` went out on a socket, that socket's close event has been
\* handled, and no reconnect timer is pending.
C6_Witness ==
    /\ ~shouldReconnect
    /\ timers = <<>>
    /\ \E i \in 1..Len(transmitted) :
          /\ transmitted[i].msg.type = "end"
          /\ sockets[transmitted[i].sock].readyState = CLOSED

\* C7 -- no automatic reconnection after disconnect(), as claimed: in every
\* state after disconnect() the client has no connecting or open transport.
C7_NoReconnectAfterDisconnect ==
    ~shouldReconnect => Live(sockets) = {}

\* C8 -- explicit disconnect of the adapter is final, as claimed: once
\* GeminiLiveService.disconnect() has been called on an instance, no step
\* schedules a reconnect attempt for it and no step makes it a new upstream
\* transport, the close event that disconnect() causes included.
C8_DisconnectIsFinal ==
    [][\A c \in ConnIds :
          gemini[c].disconnected =>
              /\ Len(gemini'[c].timers) <= Len(gemini[c].timers)
              /\ Len(gemini'[c].sockets) = Len(gemini[c].sockets)]_vars

\* C9 -- idempotent cleanup.  After any call of cleanupConnection(c) the id is
\* absent from the mapping; a call on an id that was cleaned up before changes
\* nothing (the mapping, every adapter, every ConnectionState, every client
\* socket log stay as they are, but for the socket event that made the call);
\* and no call touches another connection.
C9_IdempotentCleanup ==
    [][\A c \in ConnIds : cleanupCalls'[c] > cleanupCalls[c] =>
          /\ c \notin connections'
          /\ \A d \in ConnIds \ {c} :
                /\ states'[d] = states[d]
                /\ gemini'[d] = gemini[d]
                /\ toClient'[d] = toClient[d]
                /\ d \in connections' <=> d \in connections
          /\ cleanupCalls[c] >= 1 =>
                /\ connections' = connections
                /\ gemini' = gemini
                /\ toClient' = toClient
                /\ [states'[c] EXCEPT !.clientWs = states[c].clientWs] = states[c]
                /\ states'[c].clientWs \in {states[c].clientWs, CLOSED}]_vars

\* C9 witness: cleanupConnection ran twice on one id, after the upstream link
\* had been stored, while another connection is in the mapping.
C9_Witness ==
    \E c \in ConnIds :
        /\ cleanupCalls[c] >= 2
        /\ states[c].geminiService
        /\ connections # {}

\* C10 -- idle reclamation.  A run of the idle sweep removes from the mapping
\* exactly the ConnectionStates whose lastActivity is more than 5 minutes old,
\* and leaves the others in the mapping, unchanged and active.
IdleFor(c) == now - states[c].lastActivity

C10_IdleReclamation ==
    [][/\ (lastSweep'.fresh /\ ~lastSweep.fresh) =>
             /\ connections' = {c \in connections : IdleFor(c) <= 300000}
             /\ \A c \in connections' :
                   /\ states'[c] = states[c]
                   /\ states'[c].isActive
                   /\ gemini'[c] = gemini[c]
       /\ lastSweep'.fresh =>
             \A c \in connections' : now' - states'[c].lastActivity <= 300000]_vars

\* C10 witness: one sweep removed a connection that had been idle for more than
\* 5 minutes and kept one that had been idle for less.
C10_Witness ==
    /\ lastSweep.removed # {}
    /\ lastSweep.at = now
    /\ \A c \in lastSweep.removed : IdleFor(c) > 300000
    /\ \E d \in lastSweep.kept :
          /\ d \in connections
          /\ IdleFor(d) > 0
          /\ IdleFor(d) <= 300000

\* A step in which handleClientMessage handles a message of one type on
\* connection c.
Handles(c, type) ==
    /\ received' = received + 1
    /\ lastMsg'.conn = c
    /\ lastMsg'.type = type

\* C11 -- `end` handling, as claimed: whenever the Relay handles an `end` message
\* on a connection whose ConnectionState is in the mapping and active, the
\* connection is torn down (entry removed, state inactive, client socket
\* closing), whether or not the upstream link has been stored.
C11_EndTearsDown ==
    [][\A c \in ConnIds :
          (Handles(c, "end") /\ c \in connections /\ states[c].isActive) =>
              /\ c \notin connections'
              /\ ~states'[c].isActive
              /\ states'[c].clientWs # OPEN]_vars

\* C12 -- 1:1 ownership under races, as claimed: in every state, a connection
\* whose ConnectionState is not in the mapping any more has no upstream
\* transport that is connecting or open, also when cleanupConnection ran while
\* the establishment of the upstream link was pending.
C12_UpstreamOwned ==
    \A c \in 1..created : c \notin connections => Live(gemini[c].sockets) = {}

\* The terminal error of connection c's adapter, as the Relay's onError handler
\* sends it to the client.
TerminalError == ErrorMessage(MaxReachedError)

\* C13 -- the Relay destroys a ConnectionState on unrecoverable upstream error,
\* as claimed: in every state in which the terminal error of a connection's
\* adapter has been raised (its reconnect attempts are used up), the
\* ConnectionState is out of the mapping and its client socket is not open.
C13_DestroyedWhenExhausted ==
    \A c \in ConnIds :
        Count(toClient[c], TerminalError) >= 1 =>
            /\ c \notin connections
            /\ states[c].clientWs # OPEN

\* C20 -- reconnect ceiling of the UpstreamAdapter.  For every adapter: at most
\* three reconnect attempts in a row are scheduled; when the third in a row has
\* failed no timer is pending and no upstream socket is connecting or open; the
\* client socket of that connection carries the terminal error at most once,
\* and exactly once when the connection is still in the mapping with its client
\* socket open; and the terminal error is sent in no other situation.
C20_AdapterCeiling ==
    \A c \in ConnIds :
        /\ gemini[c].failedInRow <= maxReconnectAttempts
        /\ \A p \in gemini[c].scheduled : p[1] <= maxReconnectAttempts
        /\ Count(toClient[c], TerminalError) <= 1
        /\ gemini[c].failedInRow = maxReconnectAttempts =>
              /\ gemini[c].timers = <<>>
              /\ Live(gemini[c].sockets) = {}
              /\ (c \in connections /\ states[c].clientWs = OPEN) =>
                    Count(toClient[c], TerminalError) = 1
        /\ Count(toClient[c], TerminalError) = 1 =>
              /\ gemini[c].failedInRow = maxReconnectAttempts
              /\ gemini[c].timers = <<>>
              /\ Live(gemini[c].sockets) = {}

\* C20 witness: an adapter's third reconnect attempt in a row has failed and
\* its client, still connected, has received the terminal error, while the
\* other connection is in the mapping too.
C20_Witness ==
    \E c \in ConnIds :
        /\ gemini[c].failedInRow = maxReconnectAttempts
        /\ c \in connections
        /\ states[c].clientWs = OPEN
        /\ Count(toClient[c], TerminalError) = 1
        /\ connections = ConnIds

\* A step in which the Relay handles a message of the given type from client c
\* whose ConnectionState is in the mapping, active, with its upstream link stored.
HandlesEstablished(c, type) ==
    /\ Handles(c, type)
    /\ c \in connections
    /\ states[c].isActive
    /\ states[c].geminiService

RepliesText(c, text) ==
    /\ upstreamMsgs' = upstreamMsgs + 1
    /\ lastEnvelope' = [conn |-> c, envelope |-> ContentEnvelope(<<TextPart(text)>>)]
    /\ c \in connections
    /\ states[c].clientWs = OPEN

\* A step in which the client handles the next ServerMessage on its socket.
Delivers(message) ==
    /\ delivered' = delivered + 1
    /\ toClient[SessionConn][delivered + 1] = message

SessionTexts ==
    {e.parts[1].text : e \in {x \in SessionEnvelopes : x.kind = "content"}}

SubtypeChars == {WordChar, OtherChar}

PrefixEnd(frame, head) ==
    {k \in 3..Len(frame) : /\ frame[1] = head
                           /\ frame[k] = Base64Mark
                           /\ \A i \in 2..(k - 1) : frame[i] \in SubtypeChars}

\* The payload the claim expects upstream for a frame: what follows the prefix
\* when the frame starts with one, the frame itself otherwise.
BarePayload(frame, head) ==
    IF PrefixEnd(frame, head) = {} THEN frame
    ELSE LET k == CHOOSE j \in PrefixEnd(frame, head) : TRUE
         IN SubSeq(frame, k + 1, Len(frame))

\* A step in which connection c's adapter sends or queues exactly one message, chunk.
Forwards(c, chunk) ==
    \/ /\ gemini'[c].wire = Append(gemini[c].wire, [sock |-> gemini[c].ws, msg |-> chunk])
       /\ gemini'[c].messageQueue = gemini[c].messageQueue
    \/ /\ gemini'[c].messageQueue = Append(gemini[c].messageQueue, chunk)
       /\ gemini'[c].wire = gemini[c].wire

\* C16 -- frame-prefix stripping, as claimed: on an established connection, a
\* non-empty video_frame is forwarded as one image/jpeg chunk whose data is the
\* payload after the `data:image/<subtype>;base64,` prefix when the frame
\* starts with one, and the frame itself when it does not; likewise an
\* audio_chunk, with `data:audio/<subtype>;base64,` and audio/pcm.
C16_PrefixStripped ==
    [][\A c \in ConnIds :
          /\ (HandlesEstablished(c, "video_frame") /\ lastMsg'.frame # <<>>) =>
                Forwards(c, MediaChunk("image/jpeg",
                                       BarePayload(lastMsg'.frame, ImageHead)))
          /\ (HandlesEstablished(c, "audio_chunk") /\ lastMsg'.frame # <<>>) =>
                Forwards(c, MediaChunk("audio/pcm",
                                       BarePayload(lastMsg'.frame, AudioHead)))]_vars

\* The order of the steps of a shutdown that cleaned up n connections.
RECURSIVE Cleanups(_)
Cleanups(n) == IF n = 0 THEN <<>> ELSE <<"cleanupConnection">> \o Cleanups(n - 1)

ShutdownOrder(n) ==
    <<"clearInterval">> \o Cleanups(n) \o <<"wss.close", "server.close">>

\* C17 -- shutdown ordering.  The termination signal's handler clears the
\* idle-sweep timer, then cleans up every connection that was in the mapping,
\* one cleanupConnection each, then closes the listening socket, in this order;
\* from then on the mapping is empty, the timer is cleared and the listener is
\* closed, no later step is a run of the sweep and none accepts a connection;
\* and the process exits with code 0 only after a shutdown, with the mapping
\* empty and every client socket closed.
C17_ShutdownOrdering ==
    /\ [](shutdownLog # <<>> =>
            /\ connections = {}
            /\ ~cleanupInterval
            /\ ~listening
            /\ \E n \in 0..Cardinality(ConnIds) : shutdownLog = ShutdownOrder(n)
            /\ \A c \in ConnIds : ~states[c].isActive /\ states[c].clientWs # OPEN)
    /\ [](exitCode = "0" =>
            /\ shutdownLog # <<>>
            /\ connections = {}
            /\ \A c \in 1..created : states[c].clientWs = CLOSED)
    /\ [][/\ (shutdownLog = <<>> /\ shutdownLog' # <<>>) =>
                shutdownLog' = ShutdownOrder(Cardinality(connections))
          /\ shutdownLog # <<>> =>
                /\ shutdownLog' = shutdownLog
                /\ created' = created
                /\ lastSweep'.fresh => lastSweep.fresh
                /\ lastSweep'.at = lastSweep.at
                /\ lastSweep'.removed = lastSweep.removed]_vars

\* C17 witness: the signal came while two connections were in the mapping, one
\* of them with its upstream link stored; both were cleaned up, their client
\* sockets have closed, and the process has exited with code 0.
C17_Witness ==
    /\ exitCode = "0"
    /\ shutdownLog = ShutdownOrder(2)
    /\ now > 0
    /\ \E c \in ConnIds : gemini[c].disconnected

\* A step in which the upstream socket the Relay made for connection c fails
\* during establishment: it closes without having opened, so that the awaited
\* connect() of initializeGeminiConnection rejects.
EstablishmentFails(c) ==
    /\ c \in 1..created
    /\ gemini[c].sockets[1].readyState = CONNECTING
    /\ gemini'[c].sockets[1].readyState = CLOSED

\* C19 -- upstream establishment failure is reported, not fatal.  When the
\* upstream connection of a connection that is in the mapping with its client
\* socket open fails during establishment, the client is sent `error`
\* ServerMessages and nothing else, the last of them 'Failed to connect to
\* Gemini Live'; the mapping and every ConnectionState stay as they were: the
\* connection is in the mapping, active, its client socket open, its upstream
\* link not stored.
C19_FailureReported ==
    [][\A c \in ConnIds :
          (EstablishmentFails(c) /\ c \in connections /\ states[c].clientWs = OPEN) =>
              /\ Len(toClient'[c]) > Len(toClient[c])
              /\ SubSeq(toClient'[c], 1, Len(toClient[c])) = toClient[c]
              /\ \A i \in (Len(toClient[c]) + 1)..Len(toClient'[c]) :
                    toClient'[c][i].type = "error"
              /\ toClient'[c][Len(toClient'[c])].data.error =
                    "Failed to connect to Gemini Live"
              /\ connections' = connections
              /\ states' = states
              /\ states'[c].isActive
              /\ ~states'[c].geminiService]_vars

\* C19 witness: the establishment of a connection's upstream link has failed,
\* the client has the error, and the connection is in the mapping, active, with
\* its client socket open, while a reconnect attempt of the adapter is pending.
C19_Witness ==
    \E c \in ConnIds :
        /\ c \in connections
        /\ states[c].isActive
        /\ states[c].clientWs = OPEN
        /\ gemini[c].sockets[1].readyState = CLOSED
        /\ ~gemini[c].sockets[1].opened
        /\ toClient[c][Len(toClient[c])].type = "error"
        /\ toClient[c][Len(toClient[c])].data.error = "Failed to connect to Gemini Live"
        /\ gemini[c].timers # <<>>

\* Connection b is left alone by a step: no ServerMessage is sent on its client
\* socket, and its ConnectionState, its place in the mapping and its adapter
\* (queue, reconnect counter, sockets, timers) stay as they were.
Untouched(b) ==
    /\ toClient'[b] = toClient[b]
    /\ states'[b] = states[b]
    /\ gemini'[b] = gemini[b]
    /\ b \in connections' <=> b \in connections

\* A step in which an upstream socket of connection a's adapter fails: it closes
\* without having opened.
UpstreamFails(a) ==
    \E s \in 1..Len(gemini[a].sockets) :
        /\ gemini[a].sockets[s].readyState = CONNECTING
        /\ gemini'[a].sockets[s].readyState = CLOSED

\* C18 -- per-connection isolation.  Every event of a connection (a client
\* message, the close or error of its client socket, the open, message, error,
\* close or reconnect of its upstream socket) leaves every other connection
\* untouched; and the error of a failed upstream socket of a connection that is
\* in the mapping with its client socket open is sent, as `error`
\* ServerMessages, to that connection's client and to no other.
C18_Isolation ==
    [][/\ \E a \in ConnIds : \A b \in ConnIds \ {a} : Untouched(b)
       /\ \A a \in ConnIds :
             UpstreamFails(a) =>
                 /\ \A b \in ConnIds \ {a} : Untouched(b)
                 /\ (a \in connections /\ states[a].clientWs = OPEN) =>
                       /\ Len(toClient'[a]) > Len(toClient[a])
                       /\ \A i \in (Len(toClient[a]) + 1)..Len(toClient'[a]) :
                             toClient'[a][i].type = "error"]_vars

\* C18 witness: two connections are in the mapping with their client sockets
\* open; one has had upstream failures and its client has the errors; the other
\* is established, its adapter has never reconnected, and its client has
\* received only its own status and its own upstream's reply.
C18_Witness ==
    \E a \in ConnIds, b \in ConnIds :
        /\ a # b
        /\ {a, b} \subseteq connections
        /\ states[a].clientWs = OPEN
        /\ states[b].clientWs = OPEN
        /\ gemini[a].reconnectAttempts >= 1
        /\ \E i \in 1..Len(toClient[a]) : toClient[a][i].type = "error"
        /\ states[b].geminiService
        /\ gemini[b].reconnectAttempts = 0
        /\ toClient[b] = <<StatusMessage("initializing"), TextResponse("hi there")>>

\* C22 -- per-connection ordering of the StreamingClient, as claimed: in every
\* state, under every interleaving of sends, closes, reconnects and
\* transmission errors, the messages on the wire are in the order they were
\* issued, and no message on the wire was issued after a message that is still
\* waiting in the queue.
C22_IssueOrderKept ==
    /\ \A i \in 1..Len(transmitted), j \in 1..Len(transmitted) :
          i < j => transmitted[i].msg.id < transmitted[j].msg.id
    /\ \A i \in 1..Len(messageQueue), j \in 1..Len(transmitted) :
          transmitted[j].msg.id < messageQueue[i].id

\* The messages adapter g put on the wire of its socket s, in order.
RECURSIVE OnSocket(_, _)
OnSocket(wire, s) ==
    IF wire = <<>> THEN <<>>
    ELSE (IF Head(wire).sock = s THEN <<Head(wire).msg>> ELSE <<>>)
         \o OnSocket(Tail(wire), s)

\* C23 -- setup first.  For every adapter and every upstream socket it made,
\* the initial one and every reconnect: nothing is transmitted on the socket
\* before it opens; once it has opened, the first message on it is the setup
\* envelope, and no other message on it is a setup envelope, so that every
\* media chunk (queued before the open, or sent later) comes after the setup.
C23_SetupFirst ==
    \A c \in ConnIds : \A s \in 1..Len(gemini[c].sockets) :
        LET sent == OnSocket(gemini[c].wire, s)
        IN IF gemini[c].sockets[s].opened
           THEN /\ sent # <<>>
                /\ sent[1] = SetupMessage
                /\ \A i \in 2..Len(sent) : sent[i].kind = "media"
           ELSE sent = <<>>

\* C23 witness: an adapter's reconnect socket has opened with a media chunk in
\* the queue, and its wire on that socket is the setup envelope, then the chunk.
C23_Witness ==
    \E c \in ConnIds : \E s \in 2..Len(gemini[c].sockets) :
        /\ gemini[c].sockets[s].by = "timer"
        /\ gemini[c].sockets[s].opened
        /\ Len(OnSocket(gemini[c].wire, s)) = 2
        /\ OnSocket(gemini[c].wire, s)[1] = SetupMessage
        /\ OnSocket(gemini[c].wire, s)[2].kind = "media"
        /\ OnSocket(gemini[c].wire, 1) = <<SetupMessage>>

\* The queue q as it goes on the wire of socket s, in order.
OnWire(q, s) == [i \in 1..Len(q) |-> [sock |-> s, msg |-> q[i]]]

\* A step in which upstream socket s of connection c's adapter opens.
UpstreamOpens(c, s) ==
    /\ s \in 1..Len(gemini[c].sockets)
    /\ gemini[c].sockets[s].readyState = CONNECTING
    /\ gemini'[c].sockets[s].readyState = OPEN

\* C24 -- never-drop queuing of the UpstreamAdapter.  A video frame or audio
\* chunk the Relay passes to the adapter while its upstream transport is not
\* open is appended to the adapter's queue and nothing goes on the wire; when
\* an upstream socket of the adapter opens (the first connect or a reconnect),
\* the whole queue goes on the wire of that socket, after the setup envelope,
\* each chunk once and in the order of submission, and the queue is empty;
\* no other step shortens the queue.
C24_NeverDropQueue ==
    [][\A c \in ConnIds :
          LET g == gemini[c]
              closed == ~WsOpen(g.ws, g.sockets)
          IN /\ (HandlesEstablished(c, "video_frame") /\ closed) =>
                   /\ gemini'[c].messageQueue =
                         Append(g.messageQueue,
                                MediaChunk("image/jpeg", lastMsg'.frame))
                   /\ gemini'[c].wire = g.wire
             /\ (HandlesEstablished(c, "audio_chunk") /\ closed) =>
                   /\ gemini'[c].messageQueue =
                         Append(g.messageQueue,
                                MediaChunk("audio/pcm", lastMsg'.frame))
                   /\ gemini'[c].wire = g.wire
             /\ \A s \in 1..Len(g.sockets) :
                   UpstreamOpens(c, s) =>
                       /\ gemini'[c].wire =
                             g.wire \o <<[sock |-> s, msg |-> SetupMessage]>>
                                    \o OnWire(g.messageQueue, s)
                       /\ gemini'[c].messageQueue = <<>>
             /\ (\A s \in 1..Len(g.sockets) : ~UpstreamOpens(c, s)) =>
                   /\ Len(gemini'[c].messageQueue) >= Len(g.messageQueue)
                   /\ SubSeq(gemini'[c].messageQueue, 1, Len(g.messageQueue)) =
                         g.messageQueue]_vars

\* C24 witness: a video frame and then an audio chunk were submitted while the
\* upstream transport was closed, the adapter reconnected, and both are on the
\* wire of the reconnect socket in that order, after the setup envelope.
C24_Witness ==
    \E c \in ConnIds : \E s \in 2..Len(gemini[c].sockets) :
        /\ gemini[c].sockets[s].by = "timer"
        /\ gemini[c].messageQueue = <<>>
        /\ OnSocket(gemini[c].wire, s) =
              <<SetupMessage, MediaChunk("image/jpeg", BareFrame),
                MediaChunk("audio/pcm", BareFrame)>>

\* C25 -- the upstream reference is set once established, as claimed: in every
\* state, a ConnectionState in the mapping whose adapter has had an upstream
\* socket open (the first one, or one its own reconnect made after the first
\* attempt failed) holds the reference to the adapter, so that the video
\* frames and audio chunks it receives are forwarded.
C25_ReferenceStored ==
    \A c \in connections :
        (\E s \in 1..Len(gemini[c].sockets) : gemini[c].sockets[s].opened) =>
            states[c].geminiService

\* C26 -- initial status ordering.  On the client socket of every accepted
\* connection the first ServerMessage is `status: initializing`; every message
\* after it is an `error`, `connected` or `response` of that connection's
\* upstream, none a second status; nothing is sent for an id not yet accepted.
C26_StatusFirst ==
    \A c \in ConnIds :
        IF c <= created
        THEN /\ toClient[c] # <<>>
             /\ toClient[c][1].type = "status"
             /\ toClient[c][1].data.status = "initializing"
             /\ \A i \in 2..Len(toClient[c]) :
                   toClient[c][i].type \in {"error", "connected", "response"}
        ELSE toClient[c] = <<>>

\* C26 witness: one connection whose upstream establishment failed and one
\* whose upstream replied; each client socket has the status first, then the
\* errors, or the response.
C26_Witness ==
    \E a \in ConnIds, b \in ConnIds :
        /\ Len(toClient[a]) >= 3
        /\ toClient[a][1] = [type |-> "status", data |-> [status |-> "initializing"]]
        /\ toClient[a][Len(toClient[a])].type = "error"
        /\ ~gemini[a].sockets[1].opened
        /\ Len(toClient[b]) = 2
        /\ toClient[b][1] = [type |-> "status", data |-> [status |-> "initializing"]]
        /\ toClient[b][2].type = "response"

\* A step in which the Relay's message handler runs for connection c.
HandlesAny(c) ==
    /\ received' = received + 1
    /\ lastMsg'.conn = c

\* C27 -- lastActivity tracking.  Whenever the Relay handles an inbound client
\* message on a connection whose ConnectionState is in the mapping and active,
\* that state's lastActivity becomes the current time, whatever the message is:
\* video_frame, audio_chunk, text, end, an unknown kind or data that is not
\* JSON, and whether or not the upstream link has been stored.
C27_LastActivityTracked ==
    [][\A c \in ConnIds :
          (HandlesAny(c) /\ c \in connections /\ states[c].isActive) =>
              states'[c].lastActivity = now]_vars

\* A malformed message handled before the upstream link is stored has moved
\* lastActivity forward to the current time.
C27_Witness ==
    \E c \in connections :
        /\ lastMsg.conn = c
        /\ lastMsg.type = "malformed"
        /\ ~lastMsg.established
        /\ ~states[c].geminiService
        /\ now > 0
        /\ states[c].lastActivity = now

\* C28 -- the message handler is a no-op for a missing or inactive connection:
\* a message arriving for a connection that is not in the mapping, or whose
\* state is inactive, changes no ConnectionState (no lastActivity, no frame
\* counter), no adapter (nothing sent or queued upstream), runs no cleanup,
\* leaves the mapping alone and sends nothing to any client.
C28_NoOpWhenGone ==
    [][\A c \in ConnIds :
          (HandlesAny(c) /\ (c \notin connections \/ ~states[c].isActive)) =>
              /\ states' = states
              /\ gemini' = gemini
              /\ connections' = connections
              /\ cleanupCalls' = cleanupCalls
              /\ toClient' = toClient]_vars

\* A video frame has been handled for a connection that had been cleaned up
\* earlier, at a later time than its last activity, while the other connection
\* is still served.
C28_Witness ==
    \E c \in ConnIds :
        /\ lastMsg.conn = c
        /\ lastMsg.type = "video_frame"
        /\ c \notin connections
        /\ c <= created
        /\ states[c].geminiService
        /\ states[c].lastActivity < now
        /\ connections # {}

\* The kinds of message a receiver cannot parse or does not recognise.
Unparsed == {"malformed", "unknown"}

\* A step in which the adapter of connection c handles an upstream message.
HandlesEnvelope(c) ==
    /\ upstreamMsgs' = upstreamMsgs + 1
    /\ lastEnvelope'.conn = c

\* A step in which the client handles a message from its server.
HandlesServerMessage == delivered' = delivered + 1

\* The adapter and the client discard what they cannot parse, and every
\* receiver processes well-formed messages as usual in every reachable state,
\* so also after one it discarded.
DiscardedElsewhere ==
    /\ \A c \in ConnIds :
          (HandlesEnvelope(c) /\ lastEnvelope'.envelope.kind \in Unparsed) =>
              UNCHANGED <<connections, states, gemini, cleanupCalls, toClient>>
    /\ (HandlesServerMessage /\ lastServerMsg'.type \in Unparsed) =>
          UNCHANGED <<ws, isConnected, reconnectAttempts, messageQueue,
                      shouldReconnect, sockets, timers, transmitted,
                      onErrorCalls, onResponseCalls, onConnectionCalls>>
    /\ \A c \in ConnIds :
          (HandlesEstablished(c, "video_frame") /\ lastMsg'.frame # <<>>) =>
              /\ states'[c].frameCount = states[c].frameCount + 1
              /\ Len(gemini'[c].wire) + Len(gemini'[c].messageQueue)
                    = Len(gemini[c].wire) + Len(gemini[c].messageQueue) + 1
    /\ \A c \in ConnIds :
          (/\ HandlesEnvelope(c)
           /\ lastEnvelope'.envelope = ContentEnvelope(<<TextPart("hi there")>>)
           /\ c \in connections
           /\ states[c].clientWs = OPEN) =>
              toClient'[c] = Append(toClient[c],
                                    [type |-> "response", data |-> [text |-> "hi there"]])
    /\ (HandlesServerMessage /\ lastServerMsg'.type = "response") =>
          Len(onResponseCalls') = Len(onResponseCalls) + 1

\* C21 -- parse errors, as claimed: a message that is not JSON or is of an
\* unrecognised kind, arriving at the Relay from a client, at the adapter from
\* upstream or at the client from its server, is discarded without closing,
\* cleaning up or changing any state of the connection, and well-formed
\* messages are processed as usual afterwards.
C21_NothingChanges ==
    [][/\ \A c \in ConnIds :
             (HandlesAny(c) /\ lastMsg'.type \in Unparsed) =>
                 UNCHANGED <<connections, states, gemini, cleanupCalls, toClient>>
       /\ DiscardedElsewhere]_vars

\* C21 -- parse errors, in the code: such a message is discarded without
\* closing or cleaning up, and the only state it changes is at the Relay, where
\* a message on a present and active connection moves that connection's
\* lastActivity to the current time before it is parsed; the adapter and the
\* client change nothing, and well-formed messages are processed as usual
\* afterwards.
C21_ParseErrorsNotFatal ==
    [][/\ \A c \in ConnIds :
             (HandlesAny(c) /\ lastMsg'.type \in Unparsed) =>
                 /\ UNCHANGED <<connections, gemini, cleanupCalls, toClient>>
                 /\ \A d \in ConnIds :
                       states'[d] =
                          IF d = c /\ c \in connections /\ states[c].isActive
                          THEN [states[d] EXCEPT !.lastActivity = now]
                          ELSE states[d]
       /\ DiscardedElsewhere]_vars

\* Each receiver has handled two messages, the last one well-formed and
\* processed, the one before it discarded: the client has one response for two
\* messages, the Relay's client has one response for two upstream messages, and
\* the Relay has counted and forwarded one frame of two client messages, having
\* moved lastActivity off its initial value.
C21_Witness ==
    /\ delivered = 2
    /\ lastServerMsg.type = "response"
    /\ Len(onResponseCalls) = 1
    /\ onErrorCalls = <<>>
    /\ upstreamMsgs = 2
    /\ lastEnvelope.envelope.kind = "content"
    /\ Len(toClient[1]) = 2
    /\ received = 2
    /\ lastMsg.type = "video_frame"
    /\ lastMsg.established
    /\ states[1].frameCount = 1
    /\ states[1].lastActivity > 0
    /\ 1 \in connections

\* C30 -- open handling.  Every time the open event of a client socket is
\* handled, reconnectAttempts becomes 0, the backlog is flushed (the queue is
\* empty afterwards, what was queued went onto the wire of the socket that
\* opened, and nothing else did), and the connection-state observer is called
\* with true exactly once.
C30_OpenHandling ==
    [][\A s \in 1..Len(sockets) :
          Opens(s) =>
              /\ reconnectAttempts' = 0
              /\ isConnected'
              /\ messageQueue' = <<>>
              /\ Len(transmitted') = Len(transmitted) + Len(messageQueue)
              /\ \A i \in (Len(transmitted) + 1)..Len(transmitted') :
                    /\ transmitted'[i].sock = s
                    /\ transmitted'[i].msg \in Range(messageQueue)
              /\ onConnectionCalls' = Append(onConnectionCalls, TRUE)]_vars

\* The third socket, made by a reconnect timer after two failures in a row, has
\* opened: the counter is back at 0 from 2, the message queued meanwhile is on
\* its wire, and the observer has heard false, false, true.
C30_Witness ==
    /\ Len(sockets) = 3
    /\ sockets[3].readyState = OPEN
    /\ reconnectAttempts = 0
    /\ messageQueue = <<>>
    /\ issuedClosed = {1}
    /\ Len(transmitted) = 1
    /\ transmitted[1].sock = 3
    /\ onConnectionCalls = <<FALSE, FALSE, TRUE>>

\* A step in which upstream socket s of connection c's adapter opens.
UpstreamOpensNow(c, s) ==
    /\ gemini[c].sockets[s].readyState = CONNECTING
    /\ gemini'[c].sockets[s].readyState = OPEN

\* C29 -- no transmission onto a transport that is not open.  The Relay puts a
\* ServerMessage on a client socket only while that socket is open (it is open
\* from the moment the connection is accepted) and drops what the adapter hands
\* it otherwise; whatever the StreamingClient or the UpstreamAdapter puts on a
\* wire goes onto a socket that is open at that moment (it was open before the
\* step, or the step is its open handler); and a message sent while the
\* transport is not open is appended to the sender's queue instead.
C29_OnlyOntoOpen ==
    [][/\ \A c \in ConnIds :
             toClient'[c] # toClient[c] =>
                 \/ c \in connections /\ states[c].clientWs = OPEN
                 \/ c = created' /\ created' = created + 1 /\ states'[c].clientWs = OPEN
       /\ \A c \in ConnIds :
             (HandlesEnvelope(c) /\ ~(c \in connections /\ states[c].clientWs = OPEN)) =>
                 toClient' = toClient
       /\ \A i \in (Len(transmitted) + 1)..Len(transmitted') :
             LET s == transmitted'[i].sock
             IN /\ s \in 1..Len(sockets)
                /\ sockets[s].readyState = OPEN \/ Opens(s)
       /\ (issued' = issued + 1 /\ ~WsOpen(ws, sockets)) =>
             /\ transmitted' = transmitted
             /\ Len(messageQueue') = Len(messageQueue) + 1
             /\ messageQueue'[Len(messageQueue')].id = issued'
       /\ \A c \in ConnIds :
             \A i \in (Len(gemini[c].wire) + 1)..Len(gemini'[c].wire) :
                 LET s == gemini'[c].wire[i].sock
                 IN /\ s \in 1..Len(gemini[c].sockets)
                    /\ gemini[c].sockets[s].readyState = OPEN \/ UpstreamOpensNow(c, s)
       /\ \A c \in ConnIds :
             (/\ HandlesEstablished(c, "video_frame")
              /\ lastMsg'.frame # <<>>
              /\ ~WsOpen(gemini[c].ws, gemini[c].sockets)) =>
                 /\ gemini'[c].wire = gemini[c].wire
                 /\ Len(gemini'[c].messageQueue) = Len(gemini[c].messageQueue) + 1]_vars

\* The session has carried a frame from the client over the open client socket
\* and on over the open upstream socket, the client has disconnected and its
\* socket at the Relay is closing while still in the mapping, and a content
\* envelope that arrived from upstream was dropped: no response is on the
\* client socket.
C29_Witness ==
    /\ SessionConn \in connections
    /\ states[SessionConn].clientWs = CLOSING
    /\ upstreamMsgs = 1
    /\ lastEnvelope.envelope = ContentEnvelope(<<TextPart("hi there")>>)
    /\ \A i \in 1..Len(toClient[SessionConn]) : toClient[SessionConn][i].type # "response"
    /\ Len(transmitted) = 2
    /\ Len(gemini[SessionConn].wire) = 2

\* A step in which client socket s, made by a reconnect timer, fails: it closes
\* without having opened, its error event and its close event both handled.
ReconnectFails(s) ==
    /\ s \in 1..Len(sockets)
    /\ Len(sockets') = Len(sockets)
    /\ sockets[s].by = "timer"
    /\ ~sockets[s].opened
    /\ sockets[s].readyState # CLOSED
    /\ sockets'[s].readyState = CLOSED

\* C31 -- single live connection.  With the application's one connect() call,
\* the client has in every reachable state at most one of: a transport that is
\* connecting or open, a pending reconnect timer.  A reconnect attempt that
\* fails schedules at most one follow-up attempt: its error event reports the
\* error and its close event alone sets a timer, one when the ceiling is not
\* reached and none when it is.
C31_SingleLiveConnection ==
    /\ [](Cardinality(Live(sockets)) + Len(timers) <= 1)
    /\ [][\A s \in 1..Len(sockets) :
              ReconnectFails(s) =>
                  /\ Len(timers') <= Len(timers) + 1
                  /\ Len(timers') = Len(timers) + 1 <=>
                        (shouldReconnect /\ reconnectAttempts < maxReconnectAttempts)
                  /\ onErrorCalls' \in
                        {Append(onErrorCalls, ConnectionError),
                         onErrorCalls \o <<ConnectionError, MaxReachedError>>}]_vars

\* The second reconnect attempt in a row has failed and its close event has set
\* the one timer for the third: no transport is live, one timer is pending, and
\* the observer has heard one connection error per failed socket.
C31_Witness ==
    /\ Len(sockets) = 3
    /\ \A s \in 1..3 : sockets[s].readyState = CLOSED /\ ~sockets[s].opened
    /\ Len(timers) = 1
    /\ reconnectAttempts = 3
    /\ onErrorCalls = <<ConnectionError, ConnectionError, ConnectionError>>

\* C32 -- bounded idle reclamation.  With the sweep run by its timer every 30
\* seconds, no ConnectionState is in the mapping more than 5 minutes and 30
\* seconds after its lastActivity; once that long has passed without a client
\* message and the sweep due at that time has run, the entry is gone.
C32_BoundedIdle ==
    \A c \in connections :
        /\ IdleFor(c) <= staleThreshold + sweepInterval
        /\ IdleFor(c) = staleThreshold + sweepInterval => SweepPending

\* The sweep has removed a connection exactly 5 minutes and 30 seconds after its
\* lastActivity: the run 30 seconds earlier found it idle for 5 minutes, which
\* is not more than the threshold.
C32_Witness ==
    \E c \in lastSweep.removed :
        /\ c \notin connections
        /\ lastSweep.at - states[c].lastActivity = staleThreshold + sweepInterval
        /\ now = lastSweep.at

\* The payload fields of a ServerMessage, the timestamp apart.
PayloadFields == {"text", "audio", "error", "status"}

\* A ServerMessage with exactly one payload field, the one its type calls for.
WellShaped(message) ==
    /\ Cardinality(DOMAIN message.data \cap PayloadFields) = 1
    /\ message.type \in {"connected", "status"} => "status" \in DOMAIN message.data
    /\ message.type = "response" =>
          (DOMAIN message.data) \cap {"text", "audio"} # {}
    /\ message.type = "error" => "error" \in DOMAIN message.data
    /\ message.type \in {"connected", "status", "response", "error"}
    /\ "text" \in DOMAIN message.data => message.data.text # ""

Emitted(envelope) ==
    CASE envelope = [kind |-> "setupComplete"] ->
            <<[type |-> "connected", data |-> [status |-> "ready"]]>>
      [] envelope = TwoParts ->
            <<[type |-> "response", data |-> [text |-> "hi there"]],
              [type |-> "response", data |-> [audio |-> "AAAA"]]>>
      [] envelope = AudioThenText ->
            <<[type |-> "response", data |-> [audio |-> "AAAA"]],
              [type |-> "response", data |-> [text |-> "hi there"]]>>
      [] envelope = ContentEnvelope(<<BothPart>>) ->
            <<[type |-> "response", data |-> [text |-> "look"]],
              [type |-> "response", data |-> [audio |-> "UklGRg"]]>>
      [] OTHER -> <<>>

\* C34 -- de-enveloping.  For a content envelope the adapter emits, in part
\* order, a `response` with the text of each part that holds a non-empty text
\* and a `response` with the audio of each part whose inline data has an audio
\* MIME type (for a part with both, the text first); for a setup acknowledgment
\* exactly one `connected`; for any other envelope, inline data of another MIME
\* type and an empty text, nothing.  The Relay puts what is emitted on the
\* client socket when it is open.
C34_DeEnveloping ==
    [][\A c \in ConnIds :
          HandlesEnvelope(c) =>
              toClient'[c] =
                 IF c \in connections /\ states[c].clientWs = OPEN
                 THEN toClient[c] \o Emitted(lastEnvelope'.envelope)
                 ELSE toClient[c]]_vars

\* An envelope whose first part is audio and whose second is text has been
\* handled after the setup acknowledgment: the client socket carries the
\* `connected` message, then the audio response, then the text response.
C34_Witness ==
    \E c \in connections :
        /\ upstreamMsgs = 2
        /\ lastEnvelope.envelope = AudioThenText
        /\ Len(toClient[c]) >= 3
        /\ SubSeq(toClient[c], Len(toClient[c]) - 2, Len(toClient[c])) =
              <<[type |-> "connected", data |-> [status |-> "ready"]],
                [type |-> "response", data |-> [audio |-> "AAAA"]],
                [type |-> "response", data |-> [text |-> "hi there"]]>>

\* C35 -- reconnect counter bound.  In every reachable state the
\* StreamingClient's reconnectAttempts and every UpstreamAdapter's
\* reconnectAttempts are between 0 and 3, whatever the order of open, error,
\* close and timer events.
C35_CounterBound ==
    /\ reconnectAttempts \in 0..3
    /\ \A c \in ConnIds : gemini[c].reconnectAttempts \in 0..3

\* Both endpoints have used up their attempts: each counter is 3 after the
\* third reconnect socket in a row failed, and each has reported the ceiling.
C35_Witness ==
    /\ reconnectAttempts = 3
    /\ failedInRow = 3
    /\ Len(sockets) = 4
    /\ MaxReachedError \in Range(onErrorCalls)
    /\ \E c \in connections :
          /\ gemini[c].reconnectAttempts = 3
          /\ gemini[c].failedInRow = 3
          /\ ErrorMessage(MaxReachedError) \in Range(toClient[c])

\* C36 -- the mapping holds only active states.  Every ConnectionState in the
\* mapping has isActive set, so the count the health probe reports is the size
\* of the mapping; isActive is set in the step that puts the state in the
\* mapping, and it is cleared only in a step that removes the entry.
C36_OnlyActiveInMapping ==
    /\ [](/\ \A c \in connections : states[c].isActive
          /\ getActiveConnectionsCount = Cardinality(connections))
    /\ [][\A c \in ConnIds :
              /\ (states[c].isActive /\ ~states'[c].isActive) =>
                    (c \in connections /\ c \notin connections')
              /\ (~states[c].isActive /\ states'[c].isActive) =>
                    (c \notin connections /\ c \in connections' /\ c = created')]_vars

\* Two connections were accepted and one has been cleaned up: its state is
\* inactive and out of the mapping, the other is active and in it, and the
\* health probe would report 1.
C36_Witness ==
    /\ created = 2
    /\ Cardinality(connections) = 1
    /\ getActiveConnectionsCount = 1
    /\ \E c \in 1..created : c \notin connections /\ ~states[c].isActive
                             /\ cleanupCalls[c] > 0

\* The video frames handed to connection c's adapter so far: the image chunks
\* on its upstream wire and in its queue.
RECURSIVE ImageChunks(_)
ImageChunks(msgs) ==
    IF msgs = <<>> THEN 0
    ELSE (IF Head(msgs).kind = "media" /\ Head(msgs).mimeType = "image/jpeg" THEN 1 ELSE 0)
         + ImageChunks(Tail(msgs))

FramesHanded(c) ==
    ImageChunks([i \in 1..Len(gemini[c].wire) |-> gemini[c].wire[i].msg])
    + ImageChunks(gemini[c].messageQueue)

\* C37 -- frame counter accounting.  For every ConnectionState, frameCount is
\* the number of video frames the Relay has handed to the connection's
\* adapter: 0 at first, one more with each video frame handed over, and
\* unchanged by every step that hands none over.
C37_FrameCountExact ==
    /\ [](\A c \in ConnIds : states[c].frameCount = FramesHanded(c))
    /\ [][\A c \in ConnIds :
              states'[c].frameCount \in {states[c].frameCount, states[c].frameCount + 1}]_vars

\* The client's open handler is past its drain; the adapter's loop has left
\* its queue empty.
ClientDrained == onConnectionCalls # <<>>

AdapterDrained == gemini[1].messageQueue = <<>> /\ adapterShifted = <<>>

\* C38 -- queue drain terminates.  Every drain started by an open event, the
\* StreamingClient's and the UpstreamAdapter's, comes to its end, also when a
\* transmission raises or the transport stops being open during the drain and
\* the message is queued again.
C38_DrainTerminates == <>ClientDrained /\ <>AdapterDrained

\* The media chunks connection c's adapter holds or has sent: those on its
\* upstream wire and in its queue.
RECURSIVE MediaChunks(_)
MediaChunks(msgs) ==
    IF msgs = <<>> THEN 0
    ELSE (IF Head(msgs).kind = "media" THEN 1 ELSE 0) + MediaChunks(Tail(msgs))

MediaHeld(c) ==
    MediaChunks([i \in 1..Len(gemini[c].wire) |-> gemini[c].wire[i].msg])
    + MediaChunks(gemini[c].messageQueue)

\* A step in which the Relay handles a video_frame or audio_chunk of connection c.
HandlesMedia(c) ==
    /\ HandlesAny(c)
    /\ lastMsg'.type \in {"video_frame", "audio_chunk"}

\* C39 -- media received before the upstream reference exists is discarded.  A
\* video_frame or audio_chunk handled while the active ConnectionState has no
\* adapter reference, the establishment being pending or having failed, changes
\* nothing but lastActivity: the adapter's queue and wire and frameCount stay
\* as they are.  It is not forwarded later either: the media chunks an adapter
\* holds or has sent grow only in a step that handles a media message with the
\* reference stored, and by one; without the reference there are none and
\* frameCount is 0.
C39_EarlyMediaDiscarded ==
    /\ [][\A c \in ConnIds :
             (/\ HandlesMedia(c)
              /\ c \in connections
              /\ states[c].isActive
              /\ ~states[c].geminiService) =>
                 /\ gemini' = gemini
                 /\ states' = [states EXCEPT ![c].lastActivity = now]
                 /\ connections' = connections
                 /\ toClient' = toClient
                 /\ cleanupCalls' = cleanupCalls]_vars
    /\ [][\A c \in ConnIds :
             MediaHeld(c)' # MediaHeld(c) =>
                 /\ MediaHeld(c)' = MediaHeld(c) + 1
                 /\ HandlesMedia(c)
                 /\ lastMsg'.established]_vars
    /\ [](\A c \in connections :
             ~states[c].geminiService =>
                 /\ MediaHeld(c) = 0
                 /\ states[c].frameCount = 0)

\* Establishment failed, a media message was handled without the reference
\* and dropped, and the adapter has since reconnected on its own: its
\* transport is open, nothing was queued and only the setup message was sent.
C39_Witness ==
    /\ lastMsg.conn = 1
    /\ lastMsg.type \in {"video_frame", "audio_chunk"}
    /\ ~lastMsg.established
    /\ 1 \in connections
    /\ ~states[1].geminiService
    /\ states[1].frameCount = 0
    /\ ~gemini[1].sockets[1].opened
    /\ WsOpen(gemini[1].ws, gemini[1].sockets)
    /\ gemini[1].messageQueue = <<>>
    /\ MediaHeld(1) = 0
    /\ Len(gemini[1].wire) = 1

====
